---- MODULE Spec2Model ----
(***************************************************************************)
(* Grant-Finder: the eligibility matcher (src/matcher.py) over the Grant   *)
(* record (src/sources/base_source.py) and the company profile             *)
(* (src/company_profile.py).                                               *)
(*                                                                         *)
(* Representation.                                                         *)
(*  - A Python str is the sequence of its characters, so that lower(),     *)
(*    the substring test `a in b`, str.join and the f-string formats are   *)
(*    computed, not assumed.                                               *)
(*  - An Optional value is None == {} or Some(v) == {v}.                   *)
(*  - A date is its day number; date.max is DateMax.                       *)
(*  - A score or sub-score is a decimal number held exactly: sub-scores    *)
(*    and weights in hundredths, weighted sums and final scores in         *)
(*    ten-thousandths (0.845 is 8450).  The code computes them in binary   *)
(*    floating point; its rounding error (below 1e-15) changes none of     *)
(*    the comparisons with MIN_ELIGIBILITY_SCORE over the sub-score        *)
(*    values the scoring functions can return.                             *)
(***************************************************************************)
EXTENDS Integers, Sequences, FiniteSets, Bags, TLC

VARIABLES
    today,      \* date.today(), a day number
    profile,    \* MARV_PROFILE, the process-wide CompanyProfile
    hash_order, \* the iteration order of this process's str sets (see SetIter)
    result,     \* the MatchResult of the last match_grant call, or None
    variant,    \* the MatchResult for a copy of result.grant with other ownership flags, or None
    grants,     \* the grant list handed to match_all (all_grants of the scheduler job)
    ranked,     \* the list match_all returned, or None
    reranked,   \* match_all of filter_eligible's view of ranked, or None
    pc,         \* position of the daily job: "collect", "matched", "reranked"
    dated,      \* the MatchResult for a copy of result.grant with a deadline 10 days out, or None
    normalized, \* the last evaluation of the normalisation of match_grant, or None
    matcher,    \* the GrantMatcher object of the running match_grants call, or None
    frame,      \* the running match_all call: its loop index and its local `results`, or None
    returns,    \* the lists the match_all calls of the pass have returned, oldest first
    raised,     \* the exception that escaped a call, or None
    heap_top,   \* the number of objects allocated so far (the next object id)
    shown,      \* the last grant whose amount_display was read, with the str it gave, or None
    source,     \* the BaseGrantSource object: its _last_request_time, in seconds
    clock,      \* time.time(), in seconds
    call,       \* the running _get or _post call: method, loop index, position, the
                \* attempts made, the sleeps taken and the exceptions caught so far, or None
    outcome,    \* how the last _get or _post call ended: a response or an error, or None
    calls       \* the number of _get and _post calls made so far

\* The variables of the matching pass.
passvars == <<matcher, frame, returns, raised, heap_top>>

\* The variables of the tracker and of the sources' requests.
iovars == <<shown, source, clock, call, outcome, calls>>

vars == <<today, profile, hash_order, result, variant, grants, ranked, reranked, pc,
          dated, normalized, passvars, iovars>>

---------------------------------------------------------------------------
\* Optional values

None == {}

Some(v) == {v}

Get(o) == CHOOSE v \in o : TRUE

\* Python truthiness of an Optional number: None and 0 are falsy.
TruthyNum(o) == o # None /\ Get(o) # 0

\* Python truthiness of an Optional date: every date is truthy.
TruthyDate(o) == o # None

---------------------------------------------------------------------------
\* Strings as character sequences

\* str.lower() on one character (ASCII letters; every other character is kept).
LowerChar(c) ==
    CASE c = "A" -> "a" [] c = "B" -> "b" [] c = "C" -> "c" [] c = "D" -> "d"
      [] c = "E" -> "e" [] c = "F" -> "f" [] c = "G" -> "g" [] c = "H" -> "h"
      [] c = "I" -> "i" [] c = "J" -> "j" [] c = "K" -> "k" [] c = "L" -> "l"
      [] c = "M" -> "m" [] c = "N" -> "n" [] c = "O" -> "o" [] c = "P" -> "p"
      [] c = "Q" -> "q" [] c = "R" -> "r" [] c = "S" -> "s" [] c = "T" -> "t"
      [] c = "U" -> "u" [] c = "V" -> "v" [] c = "W" -> "w" [] c = "X" -> "x"
      [] c = "Y" -> "y" [] c = "Z" -> "z" [] OTHER -> c

\* str.lower()
Lower(s) == [i \in 1..Len(s) |-> LowerChar(s[i])]

\* [x.lower() for x in xs]
LowerAll(xs) == [i \in 1..Len(xs) |-> Lower(xs[i])]

\* The str test `a in b`: a occurs in b as a contiguous substring.
StrIn(a, b) ==
    \E i \in 0..(Len(b) - Len(a)) : SubSeq(b, i + 1, i + Len(a)) = a

\* The list test `x in xs`.
ListIn(x, xs) == \E i \in 1..Len(xs) : xs[i] = x

\* str.startswith
StartsWith(s, p) == Len(p) <= Len(s) /\ SubSeq(s, 1, Len(p)) = p

\* sep.join(xs)
RECURSIVE Join(_, _)
Join(xs, sep) ==
    IF Len(xs) = 0 THEN <<>>
    ELSE IF Len(xs) = 1 THEN xs[1]
    ELSE xs[1] \o sep \o Join(Tail(xs), sep)

\* [x for x in xs if x not in ys]
RECURSIVE Without(_, _)
Without(xs, ys) ==
    IF Len(xs) = 0 THEN <<>>
    ELSE IF ~ListIn(xs[1], ys) THEN <<xs[1]>> \o Without(Tail(xs), ys)
    ELSE Without(Tail(xs), ys)

DigitChar(d) ==
    CASE d = 0 -> "0" [] d = 1 -> "1" [] d = 2 -> "2" [] d = 3 -> "3" [] d = 4 -> "4"
      [] d = 5 -> "5" [] d = 6 -> "6" [] d = 7 -> "7" [] d = 8 -> "8" [] d = 9 -> "9"

\* The decimal digits of a natural number.
RECURSIVE Digits(_)
Digits(n) == IF n < 10 THEN <<DigitChar(n)>> ELSE Digits(n \div 10) \o <<DigitChar(n % 10)>>

\* The f-string format {n} of an int.
FmtInt(n) == IF n < 0 THEN <<"-">> \o Digits(-n) ELSE Digits(n)

\* Three digits, zero padded: one group of the "," format.
Group3(n) == <<DigitChar(n \div 100), DigitChar((n \div 10) % 10), DigitChar(n % 10)>>

\* The f-string format {n:,.0f} of a non-negative whole amount: digits in groups of three.
RECURSIVE FmtThousands(_)
FmtThousands(n) ==
    IF n < 1000 THEN Digits(n)
    ELSE FmtThousands(n \div 1000) \o <<",">> \o Group3(n % 1000)

\* The f-string format {p:.0f} of a percentage held in hundredths (33.33 is 3333):
\* rounded to the nearest whole number, a tie going to the even one.
FmtPercent(h) ==
    LET q == h \div 100
        r == h % 100
    IN  Digits(IF r > 50 \/ (r = 50 /\ q % 2 = 1) THEN q + 1 ELSE q)

\* list(dict.fromkeys(xs)): the distinct elements of xs, in order of first occurrence.
RECURSIVE Dedupe(_)
Dedupe(xs) ==
    IF Len(xs) = 0 THEN <<>>
    ELSE LET init == Dedupe(SubSeq(xs, 1, Len(xs) - 1))
             last == xs[Len(xs)]
         IN  IF ListIn(last, init) THEN init ELSE Append(init, last)

Reverse(xs) == [i \in 1..Len(xs) |-> xs[Len(xs) + 1 - i]]

\* The elements of the Python set built from xs.
AsSet(xs) == {xs[i] : i \in 1..Len(xs)}

\* Iteration over set(xs).  The order in which a Python set of str yields its
\* elements is fixed within a process and unspecified across processes (string
\* hashing is salted); `order` picks one of two orders.
SetIter(xs, order) == IF order = 0 THEN Dedupe(xs) ELSE Reverse(Dedupe(xs))

---------------------------------------------------------------------------
\* The data model

\* date.max (9999-12-31) as a day number counted from 2024-01-01.
DateMax == 2913903

\* MAX_RETRIES = 3
MAX_RETRIES == 3

\* REQUEST_DELAY = 2, in seconds
REQUEST_DELAY == 2

\* time.time() when the process starts, in seconds: any time of this century
\* is further than REQUEST_DELAY from the 0 a new source holds.
StartTime == 100

\* MIN_ELIGIBILITY_SCORE = 0.6, in ten-thousandths.
MIN_ELIGIBILITY_SCORE == 6000

\* MARV_PROFILE: the fields get_eligibility_attributes reads.  Days are counted
\* from the founding date 2024-01-01; revenue is in dollars; ownership
\* percentages are in hundredths of a percent.
MARV_PROFILE ==
    [ address_city |-> <<"S","a","c","r","a","m","e","n","t","o">> (* Sacramento *),
      address_state |-> <<"C","A">> (* CA *),
      address_country |-> <<"U","n","i","t","e","d"," ","S","t","a","t","e","s">> (* United States *),
      founding_date |-> 0,
      naics_codes |-> << <<"5","4","1","8","1","0">> (* 541810 *), <<"5","4","1","6","1","3">> (* 541613 *), <<"5","4","1","8","2","0">> (* 541820 *), <<"5","6","1","4","2","2">> (* 561422 *) >>,
      employee_count |-> 3,
      annual_revenue |-> 100000,
      woman_owned_percentage |-> 3333,
      minority_owned_percentage |-> 3334,
      veteran_owned |-> FALSE,
      disabled_veteran_owned |-> FALSE,
      entity_type |-> <<"L","i","m","i","t","e","d"," ","L","i","a","b","i","l","i","t","y"," ","C","o","m","p","a","n","y"," ","(","L","L","C",")">> (* Limited Liability Company (LLC) *),
      certifications |-> <<>> ]

\* get_eligibility_attributes() read on day `now`.
get_eligibility_attributes(p, now) ==
    [ state |-> p.address_state,
      city |-> p.address_city,
      country |-> p.address_country,
      employee_count |-> p.employee_count,
      annual_revenue |-> p.annual_revenue,
      woman_owned |-> p.woman_owned_percentage > 0,
      woman_owned_percentage |-> p.woman_owned_percentage,
      minority_owned |-> p.minority_owned_percentage > 0,
      minority_owned_percentage |-> p.minority_owned_percentage,
      veteran_owned |-> p.veteran_owned,
      disabled_veteran_owned |-> p.disabled_veteran_owned,
      naics_codes |-> p.naics_codes,
      entity_type |-> p.entity_type,
      certifications |-> p.certifications,
      years_in_business |-> (now - p.founding_date) \div 365 ]

\* Grant(id=...): the dataclass with its defaults; the fields the matcher and
\* amount_display read.  The dataclass does not check the annotation
\* Optional[date] of `deadline`: a deadline that is a str is held in
\* deadline_text (and `deadline` is then None), one that is a date in `deadline`.
\* max_revenue is an Optional[float]: the float NaN is held as max_revenue_nan
\* (and max_revenue is then None), every other number in max_revenue.
DefaultGrant ==
    [ id |-> <<"g">> (* g *),
      amount_min |-> None,
      amount_max |-> None,
      amount_description |-> <<>>,
      deadline |-> None,
      deadline_text |-> None,
      eligibility_summary |-> <<>>,
      eligible_locations |-> <<>>,
      eligible_industries |-> <<>>,
      requires_woman_owned |-> FALSE,
      requires_minority_owned |-> FALSE,
      requires_veteran_owned |-> FALSE,
      max_revenue |-> None,
      max_revenue_nan |-> FALSE,
      max_employees |-> None,
      min_years_in_business |-> None,
      required_certifications |-> <<>> ]

\* Grant.days_until_deadline on day `now`.
days_until_deadline(grant, now) ==
    IF ~TruthyDate(grant.deadline) THEN None
    ELSE Some(Get(grant.deadline) - now)

---------------------------------------------------------------------------
\* GrantMatcher (src/matcher.py)

\* GrantMatcher(): self.attrs as read on day `now`, in a process whose str sets
\* iterate in order `order`.
GrantMatcher(p, now, order) ==
    [ attrs |-> get_eligibility_attributes(p, now), profile |-> p, hash_order |-> order ]

\* MatchResult(...)
MatchResult(grant, score, reasons, warnings, disqualified, disqualification_reason) ==
    [ grant |-> grant,
      score |-> score,
      reasons |-> reasons,
      warnings |-> warnings,
      disqualified |-> disqualified,
      disqualification_reason |-> disqualification_reason ]

\* min(a, b) that returns its first argument: no cap.
Min_noCap(a, b) == a

\* min(a, b)
Min(a, b) == IF a < b THEN a ELSE b

\* DeadlinePassed with the comparison off by one day (days < -1).
DeadlinePassed_offByOne(grant, now) ==
    LET days == days_until_deadline(grant, now)
    IN  TruthyDate(grant.deadline) /\ days # None /\ Get(days) < -1

\* _check_disqualifiers, "Past deadline":
\*   grant.deadline and grant.days_until_deadline is not None
\*   and grant.days_until_deadline < 0
DeadlinePassed(grant, now) ==
    LET days == days_until_deadline(grant, now)
    IN  TruthyDate(grant.deadline) /\ days # None /\ Get(days) < 0

\* missing = [cert for cert in grant.required_certifications
\*            if cert not in self.attrs["certifications"]]
MissingCertifications(self, grant) ==
    Without(grant.required_certifications, self.attrs.certifications)

\* HardCertificationMissing with the hard requirements looked up among the
\* required certifications instead of the missing ones.
HardCertificationMissing_required(self, grant) ==
    LET hard_requirements == << <<"8","(","a",")">> (* 8(a) *), <<"H","U","B","Z","o","n","e">> (* HUBZone *), <<"S","D","V","O","S","B">> (* SDVOSB *) >>
    IN  /\ Len(grant.required_certifications) > 0
        /\ \E i \in 1..Len(hard_requirements) :
              ListIn(hard_requirements[i], grant.required_certifications)

\* _check_disqualifiers, "Requires certifications we don't have":
\*   grant.required_certifications and any(req in missing for req in hard_requirements)
HardCertificationMissing(self, grant) ==
    LET hard_requirements == << <<"8","(","a",")">> (* 8(a) *), <<"H","U","B","Z","o","n","e">> (* HUBZone *), <<"S","D","V","O","S","B">> (* SDVOSB *) >>
    IN  /\ Len(grant.required_certifications) > 0
        /\ \E i \in 1..Len(hard_requirements) :
              ListIn(hard_requirements[i], MissingCertifications(self, grant))

\* RevenueExceeds of a disqualification check without the revenue test.
RevenueExceeds_never(self, grant) == FALSE

\* _check_disqualifiers, "Revenue too high":
\*   grant.max_revenue and self.attrs["annual_revenue"] > grant.max_revenue
\* NaN is truthy, and every comparison with NaN is false.
RevenueExceeds(self, grant) ==
    TruthyNum(grant.max_revenue) /\ self.attrs.annual_revenue > Get(grant.max_revenue)

\* _check_disqualifiers, "Employees too many":
\*   grant.max_employees and self.attrs["employee_count"] > grant.max_employees
EmployeesExceed(self, grant) ==
    TruthyNum(grant.max_employees) /\ self.attrs.employee_count > Get(grant.max_employees)

\* our_locations of _check_disqualifiers
OurLocations(self) ==
    << Lower(self.attrs.state),
       Lower(self.attrs.city),
       Lower(self.attrs.country),
       <<"c","a","l","i","f","o","r","n","i","a">> (* california *),
       <<"c","a">> (* ca *),
       <<"u","s">> (* us *),
       <<"u","s","a">> (* usa *),
       <<"u","n","i","t","e","d"," ","s","t","a","t","e","s">> (* united states *) >>

\* The location test of _check_disqualifiers:
\*   any(loc in locations_lower or any(our in loc for our in our_locations)
\*       for loc in locations_lower)
\* `loc in locations_lower` is list membership of an element of that same list.
AnyLocationMatches(locations_lower, our_locations) ==
    \E i \in 1..Len(locations_lower) :
        \/ ListIn(locations_lower[i], locations_lower)
        \/ \E j \in 1..Len(our_locations) : StrIn(our_locations[j], locations_lower[i])

\* _check_disqualifiers, "Wrong location".
LocationRestricted(self, grant) ==
    LET locations_lower == LowerAll(grant.eligible_locations)
    IN  /\ Len(grant.eligible_locations) > 0
        /\ ~AnyLocationMatches(locations_lower, OurLocations(self))
        /\ ~StrIn(<<"n","a","t","i","o","n","w","i","d","e">> (* nationwide *), Join(locations_lower, <<" ">> (*   *)))

\* _check_disqualifiers: <<disqualified, reason>>
_check_disqualifiers(self, grant, now) ==
    IF DeadlinePassed(grant, now)
    THEN <<TRUE, <<"D","e","a","d","l","i","n","e"," ","h","a","s"," ","p","a","s","s","e","d">> (* Deadline has passed *)>>
    ELSE IF HardCertificationMissing(self, grant)
    THEN <<TRUE, <<"R","e","q","u","i","r","e","s"," ","c","e","r","t","i","f","i","c","a","t","i","o","n",":"," ">> (* Requires certification:  *)
                   \o Join(MissingCertifications(self, grant), <<","," ">> (* ,  *))>>
    ELSE IF RevenueExceeds(self, grant)
    THEN <<TRUE, <<"R","e","v","e","n","u","e"," ","e","x","c","e","e","d","s"," ","l","i","m","i","t"," ","(","$">> (* Revenue exceeds limit ($ *)
                   \o FmtThousands(Get(grant.max_revenue)) \o <<")">> (* ) *)>>
    ELSE IF EmployeesExceed(self, grant)
    THEN <<TRUE, <<"E","m","p","l","o","y","e","e"," ","c","o","u","n","t"," ","e","x","c","e","e","d","s"," ","l","i","m","i","t"," ","(">> (* Employee count exceeds limit ( *)
                   \o FmtInt(Get(grant.max_employees)) \o <<")">> (* ) *)>>
    ELSE IF LocationRestricted(self, grant)
    THEN <<TRUE, <<"L","o","c","a","t","i","o","n"," ","r","e","s","t","r","i","c","t","e","d"," ","t","o",":"," ">> (* Location restricted to:  *)
                   \o Join(grant.eligible_locations, <<","," ">> (* ,  *))>>
    ELSE <<FALSE, <<>>>>

\* _score_location for a grant that lists eligible locations (after the first
\* return): <<score in hundredths, reasons>>
\* The nationwide test with the word sought inside the entry.
IsNationwide_substring(loc) ==
    \E word \in { <<"n","a","t","i","o","n","w","i","d","e">> (* nationwide *), <<"u","s">> (* us *), <<"u","s","a">> (* usa *), <<"u","n","i","t","e","d"," ","s","t","a","t","e","s">> (* united states *), <<"a","l","l"," ","s","t","a","t","e","s">> (* all states *) } :
        StrIn(word, loc)

\* loc in ["nationwide", "us", "usa", "united states", "all states"]: the whole
\* lower-cased entry is one of the five strings.
IsNationwide(loc) ==
    ListIn(loc, << <<"n","a","t","i","o","n","w","i","d","e">> (* nationwide *), <<"u","s">> (* us *), <<"u","s","a">> (* usa *), <<"u","n","i","t","e","d"," ","s","t","a","t","e","s">> (* united states *), <<"a","l","l"," ","s","t","a","t","e","s">> (* all states *) >>)

ListedLocationScore(grant) ==
    LET locations_lower == LowerAll(grant.eligible_locations)
    IN  IF \E i \in 1..Len(locations_lower) :
                    \/ StrIn(<<"s","a","c","r","a","m","e","n","t","o">> (* sacramento *), locations_lower[i])
                    \/ <<"s","a","c","r","a","m","e","n","t","o">> (* sacramento *) = locations_lower[i]
        THEN <<100, << <<"S","a","c","r","a","m","e","n","t","o"," ","s","p","e","c","i","f","i","c","a","l","l","y"," ","e","l","i","g","i","b","l","e">> (* Sacramento specifically eligible *) >> >>
        ELSE IF \E i \in 1..Len(locations_lower) :
                    \/ StrIn(<<"c","a","l","i","f","o","r","n","i","a">> (* california *), locations_lower[i])
                    \/ <<"c","a">> (* ca *) = locations_lower[i]
        THEN <<100, << <<"C","a","l","i","f","o","r","n","i","a"," ","s","p","e","c","i","f","i","c","a","l","l","y"," ","e","l","i","g","i","b","l","e">> (* California specifically eligible *) >> >>
        ELSE IF \E i \in 1..Len(locations_lower) : IsNationwide(locations_lower[i])
        THEN <<90, << <<"N","a","t","i","o","n","w","i","d","e"," ","e","l","i","g","i","b","i","l","i","t","y">> (* Nationwide eligibility *) >> >>
        ELSE <<50, << <<"L","o","c","a","t","i","o","n"," ","m","a","y"," ","b","e"," ","e","l","i","g","i","b","l","e"," ","-"," ","v","e","r","i","f","y">> (* Location may be eligible - verify *) >> >>

\* _score_location with no score for a grant without location restriction.
_score_location_unrestrictedZero(self, grant) ==
    IF Len(grant.eligible_locations) = 0
    THEN <<0, << <<"N","o"," ","l","o","c","a","t","i","o","n"," ","r","e","s","t","r","i","c","t","i","o","n","s">> (* No location restrictions *) >> >>
    ELSE ListedLocationScore(grant)

\* _score_location: <<score in hundredths, reasons>>
_score_location(self, grant) ==
    IF Len(grant.eligible_locations) = 0
    THEN <<100, << <<"N","o"," ","l","o","c","a","t","i","o","n"," ","r","e","s","t","r","i","c","t","i","o","n","s">> (* No location restrictions *) >> >>
    ELSE ListedLocationScore(grant)

\* The micro-business test with the threshold itself included.
IsMicroBusiness_atThreshold(self) == self.attrs.annual_revenue <= 100000

\* self.attrs["annual_revenue"] < 100000
IsMicroBusiness(self) == self.attrs.annual_revenue < 100000

\* _score_size: <<score in hundredths, reasons, warnings>>
_score_size(self, grant) ==
    LET rev == TruthyNum(grant.max_revenue) \/ grant.max_revenue_nan
        revOk == TruthyNum(grant.max_revenue)
                 /\ self.attrs.annual_revenue <= Get(grant.max_revenue)
        emp == TruthyNum(grant.max_employees)
        empOk == emp /\ self.attrs.employee_count <= Get(grant.max_employees)
        micro == IsMicroBusiness(self)
        yrs == TruthyNum(grant.min_years_in_business)
        yrsOk == yrs /\ self.attrs.years_in_business >= Get(grant.min_years_in_business)
        s0 == 100
        s1 == IF rev /\ ~revOk THEN (s0 * 0) \div 100 ELSE s0
        s2 == IF emp /\ ~empOk THEN (s1 * 0) \div 100 ELSE s1
        s3 == IF micro THEN (s2 * 110) \div 100 ELSE s2
        s4 == IF yrs /\ ~yrsOk THEN (s3 * 50) \div 100 ELSE s3
        reasons ==
            (IF revOk
             THEN << <<"R","e","v","e","n","u","e"," ","u","n","d","e","r"," ","$">> (* Revenue under $ *) \o FmtThousands(Get(grant.max_revenue)) \o <<" ","l","i","m","i","t">> (*  limit *) >>
             ELSE <<>>)
            \o (IF empOk
                THEN << <<"U","n","d","e","r"," ">> (* Under  *) \o FmtInt(Get(grant.max_employees)) \o <<" ","e","m","p","l","o","y","e","e"," ","l","i","m","i","t">> (*  employee limit *) >>
                ELSE <<>>)
            \o (IF micro THEN << <<"M","i","c","r","o","-","b","u","s","i","n","e","s","s"," ","s","t","a","t","u","s"," ","(","u","n","d","e","r"," ","$","1","0","0","k"," ","r","e","v","e","n","u","e",")">> (* Micro-business status (under $100k revenue) *) >> ELSE <<>>)
            \o (IF yrsOk
                THEN << <<"M","e","e","t","s"," ">> (* Meets  *) \o FmtInt(Get(grant.min_years_in_business))
                          \o <<"+"," ","y","e","a","r","s"," ","r","e","q","u","i","r","e","m","e","n","t">> (* + years requirement *) >>
                ELSE <<>>)
        warnings ==
            (IF rev /\ ~revOk THEN << <<"R","e","v","e","n","u","e"," ","m","a","y"," ","e","x","c","e","e","d"," ","l","i","m","i","t">> (* Revenue may exceed limit *) >> ELSE <<>>)
            \o (IF emp /\ ~empOk THEN << <<"E","m","p","l","o","y","e","e"," ","c","o","u","n","t"," ","m","a","y"," ","e","x","c","e","e","d"," ","l","i","m","i","t">> (* Employee count may exceed limit *) >> ELSE <<>>)
            \o (IF yrs /\ ~yrsOk
                THEN << <<"M","a","y"," ","n","o","t"," ","m","e","e","t"," ">> (* May not meet  *) \o FmtInt(Get(grant.min_years_in_business))
                          \o <<" ","y","e","a","r"," ","r","e","q","u","i","r","e","m","e","n","t">> (*  year requirement *) >>
                ELSE <<>>)
    IN  <<Min(s4, 100), reasons, warnings>>

\* The reasons _score_ownership has collected at its last return.
OwnershipReasons(self, grant) ==
    LET a == self.attrs
    IN  (IF grant.requires_woman_owned
         THEN << <<"W","o","m","a","n","-","o","w","n","e","d"," ","(">> (* Woman-owned ( *) \o FmtPercent(a.woman_owned_percentage) \o <<"%",")">> (* %) *) >>
         ELSE <<>>)
        \o (IF grant.requires_minority_owned
            THEN << <<"M","i","n","o","r","i","t","y","-","o","w","n","e","d"," ","(">> (* Minority-owned ( *) \o FmtPercent(a.minority_owned_percentage)
                      \o <<"%",")">> (* %) *) >>
            ELSE <<>>)
        \o (IF grant.requires_veteran_owned THEN << <<"V","e","t","e","r","a","n","-","o","w","n","e","d">> (* Veteran-owned *) >> ELSE <<>>)
        \o (IF ~grant.requires_woman_owned /\ a.woman_owned
            THEN << <<"W","o","m","a","n","-","o","w","n","e","d"," ","(","b","o","n","u","s"," ","e","l","i","g","i","b","i","l","i","t","y",")">> (* Woman-owned (bonus eligibility) *) >>
            ELSE <<>>)
        \o (IF ~grant.requires_minority_owned /\ a.minority_owned
            THEN << <<"M","i","n","o","r","i","t","y","-","o","w","n","e","d"," ","(","b","o","n","u","s"," ","e","l","i","g","i","b","i","l","i","t","y",")">> (* Minority-owned (bonus eligibility) *) >>
            ELSE <<>>)

\* OwnershipMet in which a veteran requirement that is held also sets the score to 1.0.
OwnershipMet_veteranFull(self, grant) ==
    LET a == self.attrs
        base == 50
        s1 == IF grant.requires_woman_owned THEN 100 ELSE base
        s2 == IF grant.requires_minority_owned THEN 100 ELSE s1
        sv == IF grant.requires_veteran_owned THEN 100 ELSE s2
        s3 == IF ~grant.requires_woman_owned /\ a.woman_owned THEN sv + 10 ELSE sv
        s4 == IF ~grant.requires_minority_owned /\ a.minority_owned THEN s3 + 10 ELSE s3
    IN  <<Min(s4, 100), OwnershipReasons(self, grant)>>

\* _score_ownership when no requirement is unmet: the value of its last return.
OwnershipMet(self, grant) ==
    LET a == self.attrs
        base == 50
        s1 == IF grant.requires_woman_owned THEN 100 ELSE base
        s2 == IF grant.requires_minority_owned THEN 100 ELSE s1
        s3 == IF ~grant.requires_woman_owned /\ a.woman_owned THEN s2 + 10 ELSE s2
        s4 == IF ~grant.requires_minority_owned /\ a.minority_owned THEN s3 + 10 ELSE s3
    IN  <<Min(s4, 100), OwnershipReasons(self, grant)>>

\* _score_ownership without the else branch of the woman-owned requirement.
_score_ownership_noWomanVeto(self, grant) ==
    IF grant.requires_minority_owned /\ ~self.attrs.minority_owned
    THEN <<0, << <<"R","e","q","u","i","r","e","s"," ","m","i","n","o","r","i","t","y","-","o","w","n","e","d"," ","s","t","a","t","u","s">> (* Requires minority-owned status *) >> >>
    ELSE IF grant.requires_veteran_owned /\ ~self.attrs.veteran_owned
    THEN <<0, << <<"R","e","q","u","i","r","e","s"," ","v","e","t","e","r","a","n","-","o","w","n","e","d"," ","s","t","a","t","u","s">> (* Requires veteran-owned status *) >> >>
    ELSE OwnershipMet(self, grant)

\* _score_ownership: <<score in hundredths, reasons>>
_score_ownership(self, grant) ==
    IF grant.requires_woman_owned /\ ~self.attrs.woman_owned
    THEN <<0, << <<"R","e","q","u","i","r","e","s"," ","w","o","m","a","n","-","o","w","n","e","d"," ","s","t","a","t","u","s">> (* Requires woman-owned status *) >> >>
    ELSE IF grant.requires_minority_owned /\ ~self.attrs.minority_owned
    THEN <<0, << <<"R","e","q","u","i","r","e","s"," ","m","i","n","o","r","i","t","y","-","o","w","n","e","d"," ","s","t","a","t","u","s">> (* Requires minority-owned status *) >> >>
    ELSE IF grant.requires_veteran_owned /\ ~self.attrs.veteran_owned
    THEN <<0, << <<"R","e","q","u","i","r","e","s"," ","v","e","t","e","r","a","n","-","o","w","n","e","d"," ","s","t","a","t","u","s">> (* Requires veteran-owned status *) >> >>
    ELSE OwnershipMet(self, grant)

\* The first index i of xs with hit[i], or 0 when there is none.
FirstIndex(n, hit) ==
    IF \E i \in 1..n : hit[i]
    THEN CHOOSE i \in 1..n : hit[i] /\ \A j \in 1..(i - 1) : ~hit[j]
    ELSE 0

\* The code test in one direction only: our code starts with theirs.
CodeMatches_oneWay(our_code, their_code) == StartsWith(our_code, their_code)

\* our_code.startswith(their_code) or their_code.startswith(our_code)
CodeMatches(our_code, their_code) ==
    StartsWith(our_code, their_code) \/ StartsWith(their_code, our_code)

\* _score_industry: <<score in hundredths, reasons>>
_score_industry(self, grant) ==
    LET our_naics == SetIter(self.attrs.naics_codes, self.hash_order)
        grant_industries_lower == LowerAll(grant.eligible_industries)
        CodeMatch(our_code) ==
            \E k \in 1..Len(grant.eligible_industries) :
                CodeMatches(our_code, grant.eligible_industries[k])
        code == FirstIndex(Len(our_naics), [i \in 1..Len(our_naics) |-> CodeMatch(our_naics[i])])
        keywords ==
            << <<"a","d","v","e","r","t","i","s","i","n","g">> (* advertising *), <<"m","a","r","k","e","t","i","n","g">> (* marketing *), <<"m","e","d","i","a">> (* media *), <<"c","o","n","s","u","l","t","i","n","g">> (* consulting *),
               <<"b","u","s","i","n","e","s","s"," ","s","e","r","v","i","c","e","s">> (* business services *), <<"p","r","o","f","e","s","s","i","o","n","a","l"," ","s","e","r","v","i","c","e","s">> (* professional services *),
               <<"s","m","a","l","l"," ","b","u","s","i","n","e","s","s">> (* small business *), <<"t","e","c","h","n","o","l","o","g","y">> (* technology *) >>
        KeywordMatch(keyword) ==
            \E k \in 1..Len(grant_industries_lower) : StrIn(keyword, grant_industries_lower[k])
        kw == FirstIndex(Len(keywords), [i \in 1..Len(keywords) |-> KeywordMatch(keywords[i])])
        general == << <<"a","l","l">> (* all *), <<"a","n","y">> (* any *), <<"o","p","e","n">> (* open *), <<"g","e","n","e","r","a","l">> (* general *) >>
    IN  IF Len(grant.eligible_industries) = 0
        THEN <<80, << <<"N","o"," ","i","n","d","u","s","t","r","y"," ","r","e","s","t","r","i","c","t","i","o","n","s">> (* No industry restrictions *) >> >>
        ELSE IF code # 0
        THEN <<100, << <<"N","A","I","C","S"," ","c","o","d","e"," ","m","a","t","c","h",":"," ">> (* NAICS code match:  *) \o our_naics[code] >> >>
        ELSE IF kw # 0
        THEN <<90, << <<"I","n","d","u","s","t","r","y"," ","k","e","y","w","o","r","d"," ","m","a","t","c","h",":"," ">> (* Industry keyword match:  *) \o keywords[kw] >> >>
        ELSE IF \E i \in 1..Len(general) :
                    StrIn(general[i], Join(grant_industries_lower, <<" ">> (*   *)))
        THEN <<80, << <<"O","p","e","n"," ","t","o"," ","a","l","l"," ","i","n","d","u","s","t","r","i","e","s">> (* Open to all industries *) >> >>
        ELSE <<30, << <<"I","n","d","u","s","t","r","y"," ","a","l","i","g","n","m","e","n","t"," ","u","n","c","e","r","t","a","i","n">> (* Industry alignment uncertain *) >> >>

\* The "prefer" test on the summary as written, letter case included.
SummaryPrefers_caseSensitive(grant) ==
    Len(grant.eligibility_summary) > 0 /\ StrIn(<<"p","r","e","f","e","r">> (* prefer *), grant.eligibility_summary)

\* grant.eligibility_summary and "prefer" in grant.eligibility_summary.lower()
SummaryPrefers(grant) ==
    Len(grant.eligibility_summary) > 0 /\ StrIn(<<"p","r","e","f","e","r">> (* prefer *), Lower(grant.eligibility_summary))

\* _score_certifications: <<score in hundredths, reasons, warnings>>
_score_certifications(self, grant) ==
    LET our_certs == AsSet(self.attrs.certifications)
        required == SetIter(grant.required_certifications, self.hash_order)
        missing == SetIter(Without(grant.required_certifications, self.attrs.certifications),
                           self.hash_order)
        warnings == << <<"M","i","s","s","i","n","g"," ","c","e","r","t","i","f","i","c","a","t","i","o","n","s",":"," ">> (* Missing certifications:  *) \o Join(missing, <<","," ">> (* ,  *)) >>
    IN  IF Len(grant.required_certifications) = 0
        THEN <<100, << <<"N","o"," ","c","e","r","t","i","f","i","c","a","t","i","o","n","s"," ","r","e","q","u","i","r","e","d">> (* No certifications required *) >>, <<>> >>
        ELSE IF AsSet(required) \subseteq our_certs
        THEN <<100, << <<"H","a","v","e"," ","r","e","q","u","i","r","e","d"," ","c","e","r","t","i","f","i","c","a","t","i","o","n","s",":"," ">> (* Have required certifications:  *) \o Join(required, <<","," ">> (* ,  *)) >>, <<>> >>
        ELSE IF SummaryPrefers(grant)
        THEN <<50, <<>>, warnings>>
        ELSE <<0, <<>>, warnings>>

\* _score_deadline with 1.0 for every deadline at most 14 days away.
_score_deadline_urgentFortnight(self, grant, now) ==
    LET d == days_until_deadline(grant, now)
        days == Get(d)
    IN  IF ~TruthyDate(grant.deadline) \/ d = None THEN 50
        ELSE IF days < 0 THEN 0
        ELSE IF days <= 14 THEN 100
        ELSE IF days <= 30 THEN 80
        ELSE IF days <= 60 THEN 60
        ELSE 40

\* _score_deadline: score in hundredths
_score_deadline(self, grant, now) ==
    LET d == days_until_deadline(grant, now)
        days == Get(d)
    IN  IF ~TruthyDate(grant.deadline) \/ d = None THEN 50
        ELSE IF days < 0 THEN 0
        ELSE IF days <= 7 THEN 100
        ELSE IF days <= 14 THEN 90
        ELSE IF days <= 30 THEN 80
        ELSE IF days <= 60 THEN 60
        ELSE 40

\* WeightedSum with weight 0.20 for the ownership sub-score.
WeightedSum_ownershipFifth(loc, size, own, ind, cert, deadline_score) ==
    loc * 20 + size * 20 + own * 20 + ind * 15 + cert * 10 + deadline_score * 10

\* `score` of match_grant after its six `score += sub_score * weight`
\* statements, in ten-thousandths (sub-scores and weights in hundredths).
WeightedSum(loc, size, own, ind, cert, deadline_score) ==
    loc * 20 + size * 20 + own * 25 + ind * 15 + cert * 10 + deadline_score * 10

\* `max_score` of match_grant after its six `max_score += weight` statements,
\* in hundredths.
MaxScore == 20 + 20 + 25 + 15 + 10 + 10

\* final_score = score / max_score if max_score > 0 else 0.0, with score and the
\* quotient in ten-thousandths and max_score in hundredths.
Normalize(score, max_score) ==
    IF max_score > 0 THEN (score * 100) \div max_score ELSE 0

\* The test for the deadline reason with the threshold at 0.6.
DeadlineReasonDue_above60(deadline_score) == deadline_score > 60

\* deadline_score > 0.5
DeadlineReasonDue(deadline_score) == deadline_score > 50

\* match_grant after the disqualification check (its scoring part).  Sub-scores
\* and weights are in hundredths, `score` in ten-thousandths and max_score in
\* hundredths, so score / max_score in ten-thousandths is (score * 100) \div max_score.
ScoredResult(self, grant, now) ==
    LET loc == _score_location(self, grant)
        size == _score_size(self, grant)
        own == _score_ownership(self, grant)
        ind == _score_industry(self, grant)
        cert == _score_certifications(self, grant)
        deadline_score == _score_deadline(self, grant, now)
        max_score == MaxScore
        score == WeightedSum(loc[1], size[1], own[1], ind[1], cert[1], deadline_score)
        reasons ==
            loc[2] \o size[2] \o own[2] \o ind[2] \o cert[2]
            \o (IF DeadlineReasonDue(deadline_score)
                THEN << <<"D","e","a","d","l","i","n","e"," ","i","n"," ">> (* Deadline in  *) \o FmtInt(Get(days_until_deadline(grant, now)))
                          \o <<" ","d","a","y","s">> (*  days *) >>
                ELSE <<>>)
        warnings == size[3] \o cert[3]
        final_score == Normalize(score, max_score)
    IN  MatchResult(grant, final_score, reasons, warnings, FALSE, <<>>)

\* match_grant with a zero ownership sub-score treated as a disqualification.
match_grant_ownershipDisqualifies(self, grant, now) ==
    LET disq == _check_disqualifiers(self, grant, now)
        own == _score_ownership(self, grant)
    IN  IF disq[1]
        THEN MatchResult(grant, 0, <<>>, <<>>, TRUE, disq[2])
        ELSE IF own[1] = 0
        THEN MatchResult(grant, 0, <<>>, <<>>, TRUE, own[2][1])
        ELSE ScoredResult(self, grant, now)

\* match_grant that scores a disqualified grant before it returns.
match_grant_scoresDisqualified(self, grant, now) ==
    LET disq == _check_disqualifiers(self, grant, now)
        scored == ScoredResult(self, grant, now)
    IN  IF disq[1]
        THEN MatchResult(grant, scored.score, scored.reasons, scored.warnings, TRUE, disq[2])
        ELSE scored

\* match_grant
match_grant(self, grant, now) ==
    LET disq == _check_disqualifiers(self, grant, now)
    IN  IF disq[1]
        THEN MatchResult(grant, 0, <<>>, <<>>, TRUE, disq[2])
        ELSE ScoredResult(self, grant, now)

\* SortKey without the minus sign: the score ascending.
SortKey_scoreAscending(r) ==
    << IF TruthyDate(r.grant.deadline) THEN Get(r.grant.deadline) ELSE DateMax, r.score >>

\* The sort key of match_all: (deadline or date.max, -score).
SortKey(r) ==
    << IF TruthyDate(r.grant.deadline) THEN Get(r.grant.deadline) ELSE DateMax, -r.score >>

\* Tuple comparison k1 < k2.
KeyLess(k1, k2) == k1[1] < k2[1] \/ (k1[1] = k2[1] /\ k1[2] < k2[2])

\* InsertSorted of a sort that is not stable: r goes before the elements with an equal key.
RECURSIVE InsertSorted_unstable(_, _)
InsertSorted_unstable(sorted, r) ==
    IF Len(sorted) = 0 THEN <<r>>
    ELSE IF ~KeyLess(SortKey(sorted[1]), SortKey(r)) THEN <<r>> \o sorted
    ELSE <<sorted[1]>> \o InsertSorted_unstable(Tail(sorted), r)

\* list.sort is stable: r goes after every element whose key is not greater.
RECURSIVE InsertSorted(_, _)
InsertSorted(sorted, r) ==
    IF Len(sorted) = 0 THEN <<r>>
    ELSE IF KeyLess(SortKey(r), SortKey(sorted[1])) THEN <<r>> \o sorted
    ELSE <<sorted[1]>> \o InsertSorted(Tail(sorted), r)

\* results.sort(key=...)
RECURSIVE SortResults(_)
SortResults(rs) ==
    IF Len(rs) = 0 THEN <<>>
    ELSE InsertSorted(SortResults(SubSeq(rs, 1, Len(rs) - 1)), rs[Len(rs)])

\* Qualifies without the threshold test.
Qualifies_noThreshold(r) == ~r.disqualified

\* Qualifies with a strict comparison (score > MIN_ELIGIBILITY_SCORE).
Qualifies_strict(r) == ~r.disqualified /\ r.score > MIN_ELIGIBILITY_SCORE

\* Qualifies that also drops a result whose ownership dimension was vetoed.
Qualifies_dropsVetoed(r) ==
    /\ ~r.disqualified
    /\ r.score >= MIN_ELIGIBILITY_SCORE
    /\ ~\E i \in 1..Len(r.reasons) :
           StartsWith(r.reasons[i], <<"R","e","q","u","i","r","e","s"," ">> (* Requires  *)) /\ StrIn(<<"-","o","w","n","e","d"," ","s","t","a","t","u","s">> (* -owned status *), r.reasons[i])

\* The filter of match_all:
\*   not result.disqualified and result.score >= MIN_ELIGIBILITY_SCORE
Qualifies(r) == ~r.disqualified /\ r.score >= MIN_ELIGIBILITY_SCORE

\* The loop of match_all: the results kept, in input order.
RECURSIVE KeptResults(_, _, _)
KeptResults(self, gs, now) ==
    IF Len(gs) = 0 THEN <<>>
    ELSE LET r == match_grant(self, gs[1], now)
         IN  (IF Qualifies(r) THEN <<r>> ELSE <<>>) \o KeptResults(self, Tail(gs), now)

\* match_all
match_all(self, gs, now) == SortResults(KeptResults(self, gs, now))

\* [r.grant for r in results]
GrantsOf(results) == [i \in 1..Len(results) |-> results[i].grant]

\* filter_eligible
filter_eligible(self, gs, now) == GrantsOf(match_all(self, gs, now))


---------------------------------------------------------------------------
\* The inputs: profiles, and the grant records the sources hand over

\* The day of the run: 2026-11-05, counted from 2024-01-01.
Days == {1039}

\* MARV_PROFILE and profiles that differ from it in the attributes the matcher reads.
Profiles ==
    { MARV_PROFILE,
      [MARV_PROFILE EXCEPT !.woman_owned_percentage = 0],
      [MARV_PROFILE EXCEPT !.minority_owned_percentage = 0],
      [MARV_PROFILE EXCEPT !.veteran_owned = TRUE],
      [MARV_PROFILE EXCEPT !.certifications = << <<"8","(","a",")">> (* 8(a) *), <<"W","O","S","B">> (* WOSB *) >>],
      [MARV_PROFILE EXCEPT !.annual_revenue = 50000, !.employee_count = 1,
                           !.founding_date = 700],
      [MARV_PROFILE EXCEPT !.annual_revenue = 250000, !.employee_count = 12,
                           !.woman_owned_percentage = 0, !.minority_owned_percentage = 0],
      [MARV_PROFILE EXCEPT !.address_state = <<"T","X">> (* TX *), !.address_city = <<"A","u","s","t","i","n">> (* Austin *),
                           !.address_country = <<"U","S","A">> (* USA *),
                           !.woman_owned_percentage = 5100] }

\* Grants in which the fields the disqualifiers read vary together.
CoreGrants(now) ==
    { [DefaultGrant EXCEPT !.deadline = d, !.required_certifications = c,
                           !.max_revenue = r, !.max_employees = e,
                           !.eligible_locations = l, !.requires_woman_owned = w] :
        d \in {None, Some(now - 1), Some(now + 10)},
        c \in { <<>>, << <<"W","O","S","B">> (* WOSB *) >>, << <<"8","(","a",")">> (* 8(a) *), <<"W","O","S","B">> (* WOSB *) >> },
        r \in {None, Some(0), Some(50000)},
        e \in {None, Some(0), Some(2)},
        l \in { <<>>, << <<"T","e","x","a","s">> (* Texas *) >> },
        w \in BOOLEAN }

\* Grants that differ from the default in their ownership requirements only.
OwnershipGrants ==
    { [DefaultGrant EXCEPT !.requires_woman_owned = w, !.requires_minority_owned = m,
                           !.requires_veteran_owned = v] :
        w \in BOOLEAN, m \in BOOLEAN, v \in BOOLEAN }

\* Grants that differ from the default in eligible_locations only.
LocationGrants ==
    { [DefaultGrant EXCEPT !.eligible_locations = l] :
        l \in { << <<"T","e","x","a","s">> (* Texas *) >>,
                << <<"N","e","w"," ","Y","o","r","k">> (* New York *), <<"T","e","x","a","s">> (* Texas *) >>,
                << <<"T","E","X","A","S">> (* TEXAS *), <<"N","e","v","a","d","a">> (* Nevada *) >>,
                << <<"S","a","c","r","a","m","e","n","t","o",","," ","C","A">> (* Sacramento, CA *) >>,
                << <<"C","a","l","i","f","o","r","n","i","a">> (* California *) >>,
                << <<"C","A">> (* CA *) >>,
                << <<"N","a","t","i","o","n","w","i","d","e">> (* Nationwide *) >>,
                << <<"T","e","x","a","s">> (* Texas *), <<"n","a","t","i","o","n","w","i","d","e"," ","p","r","o","g","r","a","m","s">> (* nationwide programs *) >>,
                << <<"U","S","A">> (* USA *) >>,
                << <<"A","l","l"," ","S","t","a","t","e","s">> (* All States *) >>,
                << <<"C","a","n","a","d","a">> (* Canada *) >>,
                << <<"A","u","s","t","i","n">> (* Austin *) >>,
                << <<"O","r","e","g","o","n">> (* Oregon *), <<"U","n","i","t","e","d"," ","S","t","a","t","e","s">> (* United States *) >> } }

\* Grants that differ from the default in their certification requirements only.
CertificationGrants ==
    { [DefaultGrant EXCEPT !.required_certifications = c, !.eligibility_summary = s] :
        c \in { << <<"H","U","B","Z","o","n","e">> (* HUBZone *) >>,
                << <<"S","D","V","O","S","B">> (* SDVOSB *), <<"8","(","a",")">> (* 8(a) *) >>,
                << <<"W","O","S","B">> (* WOSB *), <<"M","B","E">> (* MBE *) >>,
                << <<"W","O","S","B">> (* WOSB *), <<"W","O","S","B">> (* WOSB *) >>,
                << <<"h","u","b","z","o","n","e">> (* hubzone *) >>,
                << <<"M","B","E">> (* MBE *), <<"H","U","B","Z","o","n","e">> (* HUBZone *), <<"W","O","S","B">> (* WOSB *) >> },
        s \in { <<>>, <<"W","O","S","B"," ","c","e","r","t","i","f","i","c","a","t","i","o","n"," ","P","r","e","f","e","r","r","e","d">> (* WOSB certification Preferred *) } }

\* Grants that differ from the default in their size limits only.
SizeGrants ==
    { [DefaultGrant EXCEPT !.max_revenue = r, !.max_employees = e,
                           !.min_years_in_business = y] :
        r \in {None, Some(99999), Some(100000), Some(1000000)},
        e \in {None, Some(1), Some(3), Some(500)},
        y \in {None, Some(0), Some(2), Some(3)} }

\* Grants that differ from the default in their deadline only.
DeadlineGrants(now) ==
    { [DefaultGrant EXCEPT !.deadline = Some(now + k)] :
        k \in {-400, -1, 0, 1, 7, 8, 14, 15, 30, 31, 60, 61, 365} }

\* Grants that differ from the default in eligible_industries only.
IndustryGrants ==
    { [DefaultGrant EXCEPT !.eligible_industries = i] :
        i \in { << <<"5","4","1","8","1","0">> (* 541810 *) >>,
                << <<"5","4">> (* 54 *) >>,
                << <<"5","4","1","8">> (* 5418 *), <<"1","1","1">> (* 111 *) >>,
                << <<"5","6","1","4","2","2","9">> (* 5614229 *) >>,
                << <<"1","1","1">> (* 111 *) >>,
                << <<"D","i","g","i","t","a","l"," ","M","a","r","k","e","t","i","n","g">> (* Digital Marketing *) >>,
                << <<"A","g","r","i","c","u","l","t","u","r","e">> (* Agriculture *), <<"S","o","c","i","a","l"," ","M","e","d","i","a">> (* Social Media *) >>,
                << <<"A","l","l"," ","i","n","d","u","s","t","r","i","e","s">> (* All industries *) >>,
                << <<"M","a","n","u","f","a","c","t","u","r","i","n","g">> (* Manufacturing *) >>,
                << <<"I","n","s","t","a","l","l","a","t","i","o","n">> (* Installation *) >>,
                << <<"A","n","y">> (* Any *), <<"C","o","n","s","u","l","t","i","n","g">> (* Consulting *) >>,
                << <<"M","a","r","k","e","t","i","n","g">> (* Marketing *), <<"5","4","1">> (* 541 *) >>,
                << <<"A","g","r","i","c","u","l","t","u","r","e">> (* Agriculture *) >> } }

\* Grants on which every dimension is favourable to a small woman-owned
\* advertising agency in Sacramento.
FavourableGrants(now) ==
    { [DefaultGrant EXCEPT !.deadline = Some(now + 3),
                           !.eligible_locations = << <<"S","a","c","r","a","m","e","n","t","o",","," ","C","A">> (* Sacramento, CA *) >>,
                           !.eligible_industries = << <<"5","4","1","8","1","0">> (* 541810 *) >>,
                           !.requires_woman_owned = TRUE,
                           !.max_revenue = Some(1000000),
                           !.min_years_in_business = y] :
        y \in {None, Some(2)} }

\* Grants whose revenue ceiling is the float NaN.
NanCeilingGrants ==
    { [DefaultGrant EXCEPT !.max_revenue_nan = TRUE, !.max_employees = e] :
        e \in {None, Some(2), Some(500)} }

\* The grant records match_grant is applied to.
Grants(now) ==
    CoreGrants(now) \cup OwnershipGrants \cup LocationGrants \cup CertificationGrants
    \cup SizeGrants \cup DeadlineGrants(now) \cup IndustryGrants \cup FavourableGrants(now)
    \cup NanCeilingGrants

---------------------------------------------------------------------------
\* The state machine

Init ==
    /\ today \in Days
    /\ profile \in Profiles
    /\ hash_order \in {0, 1}
    /\ result = None
    /\ variant = None
    /\ grants = <<>>
    /\ ranked = None
    /\ reranked = None
    /\ pc = "collect"
    /\ dated = None
    /\ normalized = None
    /\ matcher = None
    /\ frame = None
    /\ returns = <<>>
    /\ raised = None
    /\ heap_top = 1
    /\ shown = None
    /\ source = [_last_request_time |-> 0]
    /\ clock = StartTime
    /\ call = None
    /\ outcome = None
    /\ calls = 0

\* The matcher of this process, as match_grants() builds it for a call.
Matcher == GrantMatcher(profile, today, hash_order)

\* matcher.match_grant(g) for a grant g of the sources, the first call of the run:
\* match_grant reads nothing that an earlier call wrote, so every later call
\* repeats a first call.
MatchGrant ==
    /\ result = None
    /\ \E g \in Grants(today) : result' = Some(match_grant(Matcher, g, today))
    /\ variant' = None
    /\ dated' = None
    /\ UNCHANGED <<iovars, today, profile, hash_order, grants, ranked, reranked, pc, normalized, passvars>>

\* matcher.match_grant on a copy of the last grant with ownership requirements w, m, v.
MatchVariant ==
    /\ result # None
    /\ variant = None
    /\ \E w \in BOOLEAN, m \in BOOLEAN, v \in BOOLEAN :
          variant' = Some(match_grant(Matcher,
                                      [Get(result).grant EXCEPT !.requires_woman_owned = w,
                                                                !.requires_minority_owned = m,
                                                                !.requires_veteran_owned = v],
                                      today))
    /\ UNCHANGED <<iovars, today, profile, hash_order, result, grants, ranked, reranked, pc, dated,
                   normalized, passvars>>

\* matcher.match_grant on a copy of the last grant whose deadline is 10 days out.
MatchDated ==
    /\ result # None
    /\ dated = None
    /\ dated' = Some(match_grant(Matcher, [Get(result).grant EXCEPT !.deadline = Some(today + 10)],
                                 today))
    /\ UNCHANGED <<iovars, today, profile, hash_order, result, variant, grants, ranked, reranked, pc,
                   normalized, passvars>>

\* The normalisation statement of match_grant evaluated for the totals of a
\* configuration that applies no weight: score = 0.0 and max_score = 0.0.  (The
\* six weights of match_grant are literals, so a call has max_score = 1.0.)  It
\* is evaluated once, after the matches of the behaviour.
NormalizeScore ==
    /\ result # None /\ variant # None /\ dated # None
    /\ normalized = None
    /\ normalized' = Some([ score |-> 0, max_score |-> 0, final_score |-> Normalize(0, 0) ])
    /\ UNCHANGED <<iovars, today, profile, hash_order, result, variant, grants, ranked, reranked, pc,
                   dated, passvars>>

Next == MatchGrant \/ MatchVariant \/ MatchDated \/ NormalizeScore

Spec == Init /\ [][Next]_vars

---------------------------------------------------------------------------
\* The daily job: collect the sources' grants, rank them (scheduler.py)

\* The longest grant list collected.
MaxBatch == 3

\* The grant records of a batch: with and without deadline, equal deadlines with
\* equal and with different scores, scores above, at and below the threshold,
\* and disqualified grants.
BatchGrants(now) ==
    { [DefaultGrant EXCEPT !.id = <<"a">> (* a *)],
      [DefaultGrant EXCEPT !.id = <<"b">> (* b *), !.deadline = Some(now + 10)],
      [DefaultGrant EXCEPT !.id = <<"c">> (* c *), !.deadline = Some(now + 10),
                           !.requires_woman_owned = TRUE],
      [DefaultGrant EXCEPT !.id = <<"d">> (* d *), !.deadline = Some(now + 45),
                           !.eligible_industries = << <<"A","g","r","i","c","u","l","t","u","r","e">> (* Agriculture *) >>],
      [DefaultGrant EXCEPT !.id = <<"e">> (* e *), !.deadline = Some(now + 3),
                           !.requires_veteran_owned = TRUE],
      [DefaultGrant EXCEPT !.id = <<"f">> (* f *), !.deadline = Some(now - 1)],
      [DefaultGrant EXCEPT !.id = <<"g">> (* g *), !.requires_veteran_owned = TRUE,
                           !.required_certifications = << <<"W","O","S","B">> (* WOSB *) >>,
                           !.eligible_industries = << <<"A","g","r","i","c","u","l","t","u","r","e">> (* Agriculture *) >>],
      [DefaultGrant EXCEPT !.id = <<"h">> (* h *), !.deadline = Some(now + 20),
                           !.requires_veteran_owned = TRUE,
                           !.required_certifications = << <<"W","O","S","B">> (* WOSB *) >>],
      [DefaultGrant EXCEPT !.id = <<"i">> (* i *), !.deadline = Some(now + 10)] }


\* all_grants.extend(...): a source hands over one more grant record.
Collect ==
    /\ pc = "collect"
    /\ Len(grants) < MaxBatch
    /\ \E g \in BatchGrants(today) : grants' = Append(grants, g)
    /\ UNCHANGED <<iovars, today, profile, hash_order, result, variant, ranked, reranked, pc, dated,
                   normalized, passvars>>

\* matched = match_grants(all_grants)
MatchAll ==
    /\ pc = "collect"
    /\ ranked' = Some(match_all(Matcher, grants, today))
    /\ pc' = "matched"
    /\ UNCHANGED <<iovars, today, profile, hash_order, result, variant, grants, reranked, dated,
                   normalized, passvars>>

\* match_all applied to the grants of its own output, in their ranked order.
Rerank ==
    /\ pc = "matched"
    /\ reranked' = Some(match_all(Matcher, GrantsOf(Get(ranked)), today))
    /\ pc' = "reranked"
    /\ UNCHANGED <<iovars, today, profile, hash_order, result, variant, grants, ranked, dated,
                   normalized, passvars>>

\* The profiles of the ranking runs.
InitRank ==
    /\ Init
    /\ hash_order = 0
    /\ profile \in { MARV_PROFILE, [MARV_PROFILE EXCEPT !.woman_owned_percentage = 0] }

NextRank == Collect \/ MatchAll \/ Rerank

SpecRank == InitRank /\ [][NextRank]_vars

---------------------------------------------------------------------------
\* The matching pass, statement by statement (match_grants and match_all)

\* The longest grant list of a pass.
MaxPass == 3

\* The most calls of match_grants on one grant list.
MaxCalls == 2

\* days_until_deadline_raises when the guard `if not self.deadline` is missing:
\* the subtraction is applied to an absent deadline as well.
days_until_deadline_raises_noGuard(grant) == ~TruthyDate(grant.deadline)

\* Grant.days_until_deadline ends in a TypeError: `self.deadline - date.today()`
\* is evaluated for a deadline that is a non-empty (truthy) str.
days_until_deadline_raises(grant) ==
    /\ ~TruthyDate(grant.deadline)
    /\ grant.deadline_text # None
    /\ Len(Get(grant.deadline_text)) > 0

\* match_grant ends in an exception: the first test of _check_disqualifiers,
\* `grant.deadline and grant.days_until_deadline is not None`, reads the
\* property for every truthy deadline.  For a falsy deadline (None or "") all
\* tests of the deadline take the branch of an absent deadline.
match_grant_raises(self, grant, now) == days_until_deadline_raises(grant)

\* LoopBody that lower-cases the location list of the grant in place.
LoopBody_normalisesInput(self, gs, i, now) ==
    [ self |-> self,
      grants |-> [gs EXCEPT ![i].eligible_locations = LowerAll(@)],
      result |-> match_grant(self, gs[i], now) ]

\* LoopBody of a matcher that adds the certifications a grant requires to its
\* own attrs after matching it.
LoopBody_learnsCertifications(self, gs, i, now) ==
    [ self |-> [self EXCEPT !.attrs.certifications = @ \o gs[i].required_certifications],
      grants |-> gs,
      result |-> match_grant(self, gs[i], now) ]

\* One iteration of the loop of match_all that does not raise,
\* `result = self.match_grant(grant)`: the matcher and the grant list after it,
\* and the result.  match_grant and the functions it calls assign to no
\* attribute of self or of grant and call no mutating method on their lists.
LoopBody(self, gs, i, now) ==
    [ self |-> self,
      grants |-> gs,
      result |-> match_grant(self, gs[i], now) ]

\* The grant records of a pass: kept, disqualified and below-threshold grants,
\* and grants whose deadline is a str ("TBD", and the empty str).
PassGrants(now) ==
    { [DefaultGrant EXCEPT !.id = <<"a">> (* a *)],
      [DefaultGrant EXCEPT !.id = <<"b">> (* b *), !.deadline = Some(now + 10),
                           !.requires_woman_owned = TRUE,
                           !.eligible_locations = << <<"S","a","c","r","a","m","e","n","t","o",","," ","C","A">> (* Sacramento, CA *) >>],
      [DefaultGrant EXCEPT !.id = <<"c">> (* c *), !.deadline = Some(now - 1)],
      [DefaultGrant EXCEPT !.id = <<"d">> (* d *), !.deadline_text = Some(<<"T","B","D">> (* TBD *)),
                           !.max_revenue = Some(50000)],
      [DefaultGrant EXCEPT !.id = <<"e">> (* e *), !.deadline_text = Some(<<>>),
                           !.required_certifications = << <<"W","O","S","B">> (* WOSB *) >>],
      [DefaultGrant EXCEPT !.id = <<"f">> (* f *), !.requires_veteran_owned = TRUE,
                           !.required_certifications = << <<"W","O","S","B">> (* WOSB *) >>,
                           !.eligible_industries = << <<"A","g","r","i","c","u","l","t","u","r","e">> (* Agriculture *) >>] }

\* all_grants.extend(...): a source hands over one more grant record.
Fetch ==
    /\ pc = "collect"
    /\ Len(grants) < MaxPass
    /\ \E g \in PassGrants(today) : grants' = Append(grants, g)
    /\ UNCHANGED <<iovars, today, profile, hash_order, result, variant, ranked, reranked, pc, dated,
                   normalized, passvars>>

\* match_grants(all_grants) is called: matcher = GrantMatcher(), then match_all
\* starts with results = [], a new list object.
BeginMatchAll ==
    /\ pc \in {"collect", "returned"}
    /\ Len(returns) < MaxCalls
    /\ matcher' = Some(GrantMatcher(profile, today, hash_order))
    /\ frame' = Some([ i |-> 1, results |-> <<>>, results_id |-> heap_top,
                       kept_ids |-> {}, matched |-> <<>> ])
    /\ heap_top' = heap_top + 1
    /\ pc' = "loop"
    /\ UNCHANGED <<iovars, today, profile, hash_order, result, variant, grants, ranked, reranked,
                   dated, normalized, returns, raised>>

\* One iteration of `for grant in grants`: match_grant raises, and the exception
\* leaves match_all and match_grants; or it returns a new MatchResult object,
\* which is appended to results if it qualifies.
LoopStep ==
    /\ pc = "loop"
    /\ Get(frame).i <= Len(grants)
    /\ LET f == Get(frame)
           self == Get(matcher)
       IN  IF match_grant_raises(self, grants[f.i], today)
           THEN /\ raised' = Some([ exception |-> "TypeError", index |-> f.i ])
                /\ frame' = None
                /\ pc' = "failed"
                /\ UNCHANGED <<matcher, grants, heap_top>>
           ELSE LET body == LoopBody(self, grants, f.i, today)
                    keep == Qualifies(body.result)
                IN  /\ matcher' = Some(body.self)
                    /\ grants' = body.grants
                    /\ frame' = Some([ f EXCEPT
                           !.i = @ + 1,
                           !.results = IF keep THEN Append(@, body.result) ELSE @,
                           !.kept_ids = IF keep THEN @ \cup {heap_top} ELSE @,
                           !.matched = Append(@, body.result) ])
                    /\ heap_top' = heap_top + 1
                    /\ UNCHANGED <<raised, pc>>
    /\ UNCHANGED <<iovars, today, profile, hash_order, result, variant, ranked, reranked, dated,
                   normalized, returns>>

\* After the loop: results.sort(key=...) and return results.
SortAndReturn ==
    /\ pc = "loop"
    /\ Get(frame).i > Len(grants)
    /\ returns' = Append(returns, [ list_id |-> Get(frame).results_id,
                                    items |-> SortResults(Get(frame).results),
                                    item_ids |-> Get(frame).kept_ids,
                                    matched |-> Get(frame).matched ])
    /\ frame' = None
    /\ pc' = "returned"
    /\ UNCHANGED <<iovars, today, profile, hash_order, result, variant, grants, ranked, reranked,
                   dated, normalized, matcher, raised, heap_top>>

\* The profiles of the passes.
InitPass ==
    /\ Init
    /\ hash_order = 0
    /\ profile \in { MARV_PROFILE, [MARV_PROFILE EXCEPT !.woman_owned_percentage = 0] }

NextPass == Fetch \/ BeginMatchAll \/ LoopStep \/ SortAndReturn

SpecPass == InitPass /\ [][NextPass]_vars

---------------------------------------------------------------------------
\* Grant.amount_display (src/sources/base_source.py)

\* Grant.amount_display
amount_display(grant) ==
    IF TruthyNum(grant.amount_min) /\ TruthyNum(grant.amount_max)
    THEN IF Get(grant.amount_min) = Get(grant.amount_max)
         THEN <<"$">> (* $ *) \o FmtThousands(Get(grant.amount_min))
         ELSE <<"$">> (* $ *) \o FmtThousands(Get(grant.amount_min))
              \o <<" ","-"," ","$">> (*  - $ *) \o FmtThousands(Get(grant.amount_max))
    ELSE IF TruthyNum(grant.amount_max)
    THEN <<"U","p"," ","t","o"," ","$">> (* Up to $ *) \o FmtThousands(Get(grant.amount_max))
    ELSE IF TruthyNum(grant.amount_min)
    THEN <<"F","r","o","m"," ","$">> (* From $ *) \o FmtThousands(Get(grant.amount_min))
    ELSE IF Len(grant.amount_description) > 0
    THEN grant.amount_description
    ELSE <<"A","m","o","u","n","t"," ","v","a","r","i","e","s">> (* Amount varies *)

\* Grants that differ from the default in their award amounts only; grants.gov
\* gives floor and ceiling as strings, and "0" becomes the amount 0.0.
AmountGrants ==
    { [DefaultGrant EXCEPT !.amount_min = lo, !.amount_max = hi, !.amount_description = d] :
        lo \in {None, Some(0), Some(500), Some(5000), Some(10000), Some(1000000)},
        hi \in {None, Some(0), Some(500), Some(5000), Some(10000), Some(1000000)},
        d \in { <<>>, <<"V","a","r","i","e","s"," ","b","y"," ","p","r","o","j","e","c","t">> (* Varies by project *), <<"$","5","0","0"," ","s","t","i","p","e","n","d">> (* $500 stipend *) } }

\* grant.amount_display read for a row of the tracker or a prompt of the drafter.
AmountDisplay ==
    /\ \E g \in AmountGrants : shown' = Some([grant |-> g, text |-> amount_display(g)])
    /\ UNCHANGED <<source, clock, call, outcome, calls>>
    /\ UNCHANGED <<today, profile, hash_order, result, variant, grants, ranked, reranked, pc,
                   dated, normalized, passvars>>

InitDisplay ==
    /\ Init
    /\ hash_order = 0
    /\ profile = MARV_PROFILE

NextDisplay == AmountDisplay

SpecDisplay == InitDisplay /\ [][NextDisplay]_vars

---------------------------------------------------------------------------
\* BaseGrantSource._get and _post (src/sources/base_source.py)

\* The largest number of _get and _post calls of a run.
MaxRequests == 2

\* What an attempt can raise: the subclasses of requests.RequestException that
\* session.get / session.post and response.raise_for_status() raise.
RequestExceptions == {"ConnectionError", "Timeout", "HTTPError"}

\* 2 ** n
RECURSIVE Pow2(_)
Pow2(n) == IF n = 0 THEN 1 ELSE 2 * Pow2(n - 1)

\* time.sleep(2 ** attempt): the seconds slept after the failure of attempt `attempt`.
Backoff(attempt) == Pow2(attempt)

\* The test for the last attempt that never holds: every failure is followed
\* by a wait, and the loop ends without a raise.
IsLastAttempt_never(attempt) == FALSE

\* attempt == MAX_RETRIES - 1
IsLastAttempt(attempt) == attempt = MAX_RETRIES - 1

\* self._rate_limit(): the seconds slept.
RateLimitSleep(self, now) ==
    LET elapsed == now - self._last_request_time
    IN  IF elapsed < REQUEST_DELAY THEN REQUEST_DELAY - elapsed ELSE 0

\* self._get(url) or self._post(url) is called: _rate_limit() sleeps if the
\* last request is less than REQUEST_DELAY old and notes the time, and the loop
\* is entered with attempt = 0.
BeginRequest ==
    /\ call = None
    /\ calls < MaxRequests
    /\ \E method \in {"get", "post"} :
          call' = Some([method |-> method, attempt |-> 0, at |-> "request", attempts |-> 0,
                        slept |-> <<>>, errors |-> <<>>])
    /\ clock' = clock + RateLimitSleep(source, clock)
    /\ source' = [source EXCEPT !._last_request_time = clock']
    /\ calls' = calls + 1
    /\ outcome' = None
    /\ UNCHANGED <<shown>>
    /\ UNCHANGED <<today, profile, hash_order, result, variant, grants, ranked, reranked, pc,
                   dated, normalized, passvars>>

\* One pass of the try block: session.get / session.post and raise_for_status().
\* A response that passes is returned; a RequestException is caught, and raised
\* again when this was the last attempt.
Attempt ==
    /\ call # None
    /\ Get(call).at = "request"
    /\ LET c == Get(call)
       IN  \/ /\ outcome' = Some([kind |-> "response", method |-> c.method,
                                   attempts |-> c.attempts + 1, slept |-> c.slept,
                                   errors |-> c.errors, error |-> None])
              /\ call' = None
           \/ \E e \in RequestExceptions :
                 IF IsLastAttempt(c.attempt)
                 THEN /\ outcome' = Some([kind |-> "error", method |-> c.method,
                                          attempts |-> c.attempts + 1, slept |-> c.slept,
                                          errors |-> Append(c.errors, e), error |-> Some(e)])
                      /\ call' = None
                 ELSE /\ call' = Some([c EXCEPT !.at = "backoff", !.attempts = c.attempts + 1,
                                                !.errors = Append(c.errors, e)])
                      /\ UNCHANGED outcome
    /\ UNCHANGED <<shown, source, clock, calls>>
    /\ UNCHANGED <<today, profile, hash_order, result, variant, grants, ranked, reranked, pc,
                   dated, normalized, passvars>>

\* time.sleep(2 ** attempt) returns and the for loop takes its next index; when
\* range(MAX_RETRIES) is exhausted the function falls off its end and returns None.
Sleep ==
    /\ call # None
    /\ Get(call).at = "backoff"
    /\ LET c == Get(call)
           slept == Append(c.slept, Backoff(c.attempt))
       IN  /\ clock' = clock + Backoff(c.attempt)
           /\ IF c.attempt + 1 < MAX_RETRIES
              THEN /\ call' = Some([c EXCEPT !.at = "request", !.attempt = c.attempt + 1,
                                             !.slept = slept])
                   /\ UNCHANGED outcome
              ELSE /\ outcome' = Some([kind |-> "none", method |-> c.method,
                                       attempts |-> c.attempts, slept |-> slept,
                                       errors |-> c.errors, error |-> None])
                   /\ call' = None
    /\ UNCHANGED <<shown, source, calls>>
    /\ UNCHANGED <<today, profile, hash_order, result, variant, grants, ranked, reranked, pc,
                   dated, normalized, passvars>>

InitRequest ==
    /\ Init
    /\ hash_order = 0
    /\ profile = MARV_PROFILE

NextRequest == BeginRequest \/ Attempt \/ Sleep

\* Every attempt returns or raises (the requests are made with a timeout) and
\* every sleep ends: a call in progress takes its next step.
SpecRequest == InitRequest /\ [][NextRequest]_vars /\ WF_vars(Attempt \/ Sleep)

---------------------------------------------------------------------------
\* Properties

\* The match results held in the state.
Results == result \cup variant \cup dated

\* The ranked lists held in the state.
Rankings == ranked \cup reranked

\* The deadline of grant g lies strictly before `now`.
PastDeadline(g, now) == g.deadline # None /\ Get(g.deadline) < now

\* The required certifications of g that profile p does not hold.
Lacking(p, g) == Without(g.required_certifications, p.certifications)

\* p lacks a certification of the hard-requirement set that g requires.
LacksHardCertification(p, g) ==
    \E i \in 1..Len(Lacking(p, g)) :
        Lacking(p, g)[i] \in { <<"8","(","a",")">> (* 8(a) *), <<"H","U","B","Z","o","n","e">> (* HUBZone *), <<"S","D","V","O","S","B">> (* SDVOSB *) }

\* C1: a grant whose deadline is strictly before today is disqualified with
\* score 0.0, whatever its other fields are.
C1_PastDeadlineDisqualified ==
    \A r \in Results :
        PastDeadline(r.grant, today) => (r.disqualified /\ r.score = 0)

\* C1 witness: a past-deadline grant that also carries ownership, certification,
\* size and location constraints has been matched.
C1_Witness ==
    \E r \in result :
        /\ PastDeadline(r.grant, today)
        /\ r.grant.requires_woman_owned
        /\ Len(r.grant.required_certifications) > 0
        /\ r.grant.max_revenue # None
        /\ Len(r.grant.eligible_locations) > 0
        /\ r.disqualified

\* C2 as stated: when the grant requires woman-owned status and the profile is
\* not woman-owned, the returned score is 0.0.
C2_Original ==
    \A r \in Results :
        (r.grant.requires_woman_owned /\ profile.woman_owned_percentage <= 0)
            => r.score = 0

\* C2 amended: when the grant requires woman-owned status and the profile is not
\* woman-owned, the ownership dimension contributes nothing, so the returned
\* score is at most 0.75; unless the grant is disqualified, the result carries
\* the reason "Requires woman-owned status" and its score is the weighted sum of
\* the other five sub-scores, which is above 0.0.
C2_OwnershipVetoZeroesSubScore ==
    \A r \in Results :
        (r.grant.requires_woman_owned /\ profile.woman_owned_percentage <= 0)
            => /\ r.score <= 7500
               /\ ~r.disqualified =>
                    /\ ListIn(<<"R","e","q","u","i","r","e","s"," ","w","o","m","a","n","-","o","w","n","e","d"," ","s","t","a","t","u","s">> (* Requires woman-owned status *), r.reasons)
                    /\ r.score > 0
                    /\ r.score = _score_location(Matcher, r.grant)[1] * 20
                                 + _score_size(Matcher, r.grant)[1] * 20
                                 + _score_industry(Matcher, r.grant)[1] * 15
                                 + _score_certifications(Matcher, r.grant)[1] * 10
                                 + _score_deadline(Matcher, r.grant, today) * 10

\* C2 witness: such a grant has been matched, is not disqualified and scores
\* above the threshold.
C2_Witness ==
    \E r \in result :
        /\ r.grant.requires_woman_owned
        /\ profile.woman_owned_percentage <= 0
        /\ ~r.disqualified
        /\ r.score >= MIN_ELIGIBILITY_SCORE

\* Grants g1 and g2 differ at most in their three ownership requirements.
SameButOwnership(g1, g2) ==
    [g1 EXCEPT !.requires_woman_owned = FALSE, !.requires_minority_owned = FALSE,
               !.requires_veteran_owned = FALSE]
    = [g2 EXCEPT !.requires_woman_owned = FALSE, !.requires_minority_owned = FALSE,
                 !.requires_veteran_owned = FALSE]

\* C3: two grants that differ only in their ownership requirements get the same
\* disqualified flag and the same disqualification reason.
C3_OwnershipNeverDisqualifies ==
    \A r \in result, v \in variant :
        SameButOwnership(r.grant, v.grant)
            => /\ r.disqualified = v.disqualified
               /\ r.disqualification_reason = v.disqualification_reason

\* C3 witness: a grant with an unmet woman-owned requirement and its copy
\* without the requirement have both been matched; neither is disqualified and
\* their scores differ.
C3_Witness ==
    \E r \in result, v \in variant :
        /\ SameButOwnership(r.grant, v.grant)
        /\ r.grant.requires_woman_owned
        /\ profile.woman_owned_percentage <= 0
        /\ ~v.grant.requires_woman_owned
        /\ ~r.disqualified
        /\ ~v.disqualified
        /\ r.score # v.score

\* The location aliases of profile p, as C4 lists them.
LocationAliases(p) ==
    { Lower(p.address_state), Lower(p.address_city), Lower(p.address_country),
      <<"c","a","l","i","f","o","r","n","i","a">> (* california *), <<"c","a">> (* ca *), <<"u","s">> (* us *), <<"u","s","a">> (* usa *), <<"u","n","i","t","e","d"," ","s","t","a","t","e","s">> (* united states *) }

\* No entry of g.eligible_locations equals, contains or is contained in an alias
\* of p (case-insensitively), and "nationwide" does not occur in the list.
NoLocationMatches(p, g) ==
    /\ Len(g.eligible_locations) > 0
    /\ \A i \in 1..Len(g.eligible_locations) :
         LET loc == Lower(g.eligible_locations[i])
         IN  /\ \A our \in LocationAliases(p) :
                   loc # our /\ ~StrIn(our, loc) /\ ~StrIn(loc, our)
             /\ ~StrIn(<<"n","a","t","i","o","n","w","i","d","e">> (* nationwide *), loc)

\* C4 as stated: a grant whose eligible_locations match no location alias of the
\* profile and do not mention "nationwide", and which triggers no earlier
\* disqualifier, is disqualified with a reason that names the listed locations.
C4_Original ==
    \A r \in Results :
        ( /\ NoLocationMatches(profile, r.grant)
          /\ ~DeadlinePassed(r.grant, today)
          /\ ~HardCertificationMissing(Matcher, r.grant)
          /\ ~RevenueExceeds(Matcher, r.grant)
          /\ ~EmployeesExceed(Matcher, r.grant) )
            => /\ r.disqualified
               /\ \A i \in 1..Len(r.grant.eligible_locations) :
                    StrIn(r.grant.eligible_locations[i], r.disqualification_reason)

\* C5 as stated, with the grants set aside that an earlier disqualifier (past
\* deadline, missing hard certification) rejects: a grant that declares a
\* revenue ceiling (zero included) below the profile's revenue, or an employee
\* ceiling (zero included) below its employee count, is disqualified with score
\* 0.0 and a reason containing "exceeds limit".
C5_Original ==
    \A r \in Results :
        ( /\ \/ /\ r.grant.max_revenue # None
                /\ profile.annual_revenue > Get(r.grant.max_revenue)
             \/ /\ r.grant.max_employees # None
                /\ profile.employee_count > Get(r.grant.max_employees)
          /\ ~PastDeadline(r.grant, today)
          /\ ~LacksHardCertification(profile, r.grant) )
            => /\ r.disqualified
               /\ r.score = 0
               /\ StrIn(<<"e","x","c","e","e","d","s"," ","l","i","m","i","t">> (* exceeds limit *), r.disqualification_reason)

\* C6 as stated: a grant that requires a certification of {8(a), HUBZone, SDVOSB}
\* the profile lacks is disqualified with a reason listing the missing
\* certifications; a grant whose missing certifications are all outside that set
\* is not disqualified by the certification rule.
C6_Original ==
    \A r \in Results :
        /\ LacksHardCertification(profile, r.grant)
             => /\ r.disqualified
                /\ StrIn(Join(Lacking(profile, r.grant), <<","," ">> (* ,  *)), r.disqualification_reason)
        /\ ~LacksHardCertification(profile, r.grant)
             => ~StartsWith(r.disqualification_reason, <<"R","e","q","u","i","r","e","s"," ","c","e","r","t","i","f","i","c","a","t","i","o","n">> (* Requires certification *))

\* C6 amended: such a grant is disqualified; unless its deadline has passed (the
\* reason is then "Deadline has passed"), the reason is "Requires certification: "
\* followed by all missing certifications, in the order required and separated
\* by ", ".  A grant whose missing certifications are all outside that set is not
\* disqualified by the certification rule.
C6_HardCertificationDisqualifies ==
    \A r \in Results :
        /\ LacksHardCertification(profile, r.grant)
             => /\ r.disqualified
                /\ r.score = 0
                /\ r.disqualification_reason =
                     IF PastDeadline(r.grant, today)
                     THEN <<"D","e","a","d","l","i","n","e"," ","h","a","s"," ","p","a","s","s","e","d">> (* Deadline has passed *)
                     ELSE <<"R","e","q","u","i","r","e","s"," ","c","e","r","t","i","f","i","c","a","t","i","o","n",":"," ">> (* Requires certification:  *)
                            \o Join(Lacking(profile, r.grant), <<","," ">> (* ,  *))
        /\ ~LacksHardCertification(profile, r.grant)
             => ~StartsWith(r.disqualification_reason, <<"R","e","q","u","i","r","e","s"," ","c","e","r","t","i","f","i","c","a","t","i","o","n">> (* Requires certification *))

\* C6 witness: a grant that requires 8(a) and a certification outside the hard
\* set, neither held, with a deadline that has not passed, has been matched.
C6_Witness ==
    \E r \in result :
        /\ LacksHardCertification(profile, r.grant)
        /\ Len(Lacking(profile, r.grant)) >= 2
        /\ ~PastDeadline(r.grant, today)
        /\ r.disqualified
        /\ StartsWith(r.disqualification_reason, <<"R","e","q","u","i","r","e","s"," ","c","e","r","t","i","f","i","c","a","t","i","o","n",":"," ","8","(","a",")",","," ","W","O","S","B">> (* Requires certification: 8(a), WOSB *))

\* C7: match_all never returns a result that is disqualified or whose score is
\* below MIN_ELIGIBILITY_SCORE.
C7_RankedResultsQualify ==
    \A rs \in Rankings :
        \A i \in 1..Len(rs) :
            ~rs[i].disqualified /\ rs[i].score >= MIN_ELIGIBILITY_SCORE

\* C7 witness: match_all has returned a non-empty list for a batch that held a
\* disqualified grant and a grant scoring below the threshold.
C7_Witness ==
    \E rs \in ranked :
        /\ Len(rs) > 0
        /\ \E i \in 1..Len(grants) : match_grant(Matcher, grants[i], today).disqualified
        /\ \E i \in 1..Len(grants) :
             LET r == match_grant(Matcher, grants[i], today)
             IN  ~r.disqualified /\ r.score < MIN_ELIGIBILITY_SCORE

\* The number of positions of the sequence xs that hold x.
Count(xs, x) == Cardinality({i \in 1..Len(xs) : xs[i] = x})

\* The match results of the grants of gs, position by position.
MatchesOf(gs) == [i \in 1..Len(gs) |-> match_grant(Matcher, gs[i], today)]

\* C8: match_all returns exactly the qualifying subset: a result occurs in the
\* output as often as it occurs among the matches of the input grants if it is
\* not disqualified and its score is at least the threshold, and not at all
\* otherwise.
C8_ExactlyTheQualifyingSubset ==
    \A rs \in ranked :
        LET ms == MatchesOf(grants)
        IN  \A x \in AsSet(rs) \cup AsSet(ms) :
                Count(rs, x) =
                    IF ~x.disqualified /\ x.score >= MIN_ELIGIBILITY_SCORE
                    THEN Count(ms, x)
                    ELSE 0

\* C8 witness: match_all has returned a result whose score equals the threshold
\* and has returned twice the result of a grant that came twice in the input.
C8_Witness ==
    \E rs \in ranked :
        /\ \E i \in 1..Len(rs) : rs[i].score = MIN_ELIGIBILITY_SCORE
        /\ \E i \in 1..Len(rs) : Count(rs, rs[i]) = 2 /\ Count(grants, rs[i].grant) = 2

\* The deadline by which match_all orders: a missing deadline counts as date.max.
OrderDeadline(r) == IF r.grant.deadline = None THEN DateMax ELSE Get(r.grant.deadline)

C10_RankIdempotent ==
    \A rs \in ranked, again \in reranked : GrantsOf(again) = GrantsOf(rs)

\* C10 witness: a ranked list that holds two different grants with equal
\* deadline and equal score, in an order the sort produced (another grant came
\* between them in the input), has been ranked again.
C10_Witness ==
    \E rs \in ranked, again \in reranked :
        /\ Len(again) = 3
        /\ \E i \in 1..2 :
             /\ rs[i].grant # rs[i + 1].grant
             /\ SortKey(rs[i]) = SortKey(rs[i + 1])
        /\ GrantsOf(rs) # grants

\* Grant g declares no ownership, location, size, industry or certification
\* constraint.
Unconstrained(g) ==
    /\ ~g.requires_woman_owned /\ ~g.requires_minority_owned /\ ~g.requires_veteran_owned
    /\ g.eligible_locations = <<>>
    /\ g.max_revenue = None /\ ~g.max_revenue_nan
    /\ g.max_employees = None /\ g.min_years_in_business = None
    /\ g.eligible_industries = <<>>
    /\ g.required_certifications = <<>>

\* C11: a grant without any constraint and without deadline is matched with a
\* score strictly above the threshold 0.6 and is not disqualified, for every
\* profile; the same grant with a deadline 10 days out scores at least 0.6.
C11_UnconstrainedGrantMatches ==
    \A r \in Results :
        Unconstrained(r.grant) =>
            /\ r.grant.deadline = None =>
                  (~r.disqualified /\ r.score > MIN_ELIGIBILITY_SCORE)
            /\ r.grant.deadline = Some(today + 10) =>
                  (~r.disqualified /\ r.score >= MIN_ELIGIBILITY_SCORE)

\* C11 witness: the unconstrained grant without deadline has been matched for a
\* profile that earns no ownership bonus, and so has its copy with a deadline
\* 10 days out.
C11_Witness ==
    \E r \in result, d \in dated :
        /\ Unconstrained(r.grant)
        /\ r.grant.deadline = None
        /\ profile.woman_owned_percentage = 0
        /\ profile.minority_owned_percentage = 0
        /\ d.grant = [r.grant EXCEPT !.deadline = Some(today + 10)]
        /\ d.score > r.score

\* The deadline of grant g is at least lo and at most hi days after `now`.
DeadlineWithin(g, now, lo, hi) ==
    g.deadline # None /\ Get(g.deadline) - now >= lo /\ Get(g.deadline) - now <= hi

\* The deadline sub-score that went into the score of a result that is not
\* disqualified, in hundredths: what the score holds beyond the five weighted
\* dimension sub-scores, divided by the deadline weight 0.10.
DeadlineSubScoreUsed(r) ==
    LET others == _score_location(Matcher, r.grant)[1] * 20
                  + _score_size(Matcher, r.grant)[1] * 20
                  + _score_ownership(Matcher, r.grant)[1] * 25
                  + _score_industry(Matcher, r.grant)[1] * 15
                  + _score_certifications(Matcher, r.grant)[1] * 10
    IN  (r.score - others) \div 10

\* C12 as stated: for a grant whose deadline is today or at most 14 days away,
\* the deadline sub-score that match_grant uses is 1.0.
C12_Original ==
    \A r \in Results :
        (~r.disqualified /\ DeadlineWithin(r.grant, today, 0, 14))
            => DeadlineSubScoreUsed(r) = 100

\* C12: the deadline sub-score that match_grant uses is 1.0 for a deadline that
\* is today or at most 7 days away, and 0.9 for a deadline 8 to 14 days away
\* (so 0.9 for a deadline 10 days out).
C12_DeadlineSubScore ==
    \A r \in Results :
        ~r.disqualified =>
            /\ DeadlineWithin(r.grant, today, 0, 7) => DeadlineSubScoreUsed(r) = 100
            /\ DeadlineWithin(r.grant, today, 8, 14) => DeadlineSubScoreUsed(r) = 90

\* C12 witness: grants with deadlines 7 days and 10 days out have been matched
\* and not disqualified.
C12_Witness ==
    \E r \in result, d \in dated :
        /\ ~r.disqualified /\ DeadlineWithin(r.grant, today, 7, 7)
        /\ ~d.disqualified /\ DeadlineWithin(d.grant, today, 10, 10)
        /\ r.score > d.score

\* C13: every result of match_grant is well formed: a disqualified result has
\* score 0.0, no reasons, no warnings and a non-empty disqualification reason;
\* a result that is not disqualified has an empty disqualification reason.
C13_ResultShape ==
    \A r \in Results :
        /\ r.disqualified \in BOOLEAN
        /\ r.disqualified =>
              /\ r.score = 0
              /\ r.reasons = <<>>
              /\ r.warnings = <<>>
              /\ Len(r.disqualification_reason) > 0
        /\ ~r.disqualified => r.disqualification_reason = <<>>

\* C13 witness: a grant has been disqualified for its past deadline, and its
\* copy with a deadline 10 days out has been matched with reasons and warnings.
C13_Witness ==
    \E r \in result, d \in dated :
        /\ r.disqualified
        /\ Len(r.disqualification_reason) > 0
        /\ ~d.disqualified
        /\ Len(d.reasons) > 0
        /\ Len(d.warnings) > 0

\* C14: the score of every result of match_grant lies in [0.0, 1.0].
C14_ScoreInUnitInterval ==
    \A r \in Results : r.score >= 0 /\ r.score <= 10000

\* C14 witness: a grant on which every sub-score is 1.0 has been matched for a
\* profile that earns the micro-business bonus and an ownership bonus: the
\* score is 1.0.
C14_Witness ==
    \E r \in result :
        /\ profile.annual_revenue < 100000
        /\ r.grant.requires_woman_owned
        /\ profile.minority_owned_percentage > 0
        /\ ~r.disqualified
        /\ r.score = 10000

\* Grant g declares a revenue ceiling, and the revenue of profile p exceeds it.
RevenueAboveCeiling(p, g) ==
    g.max_revenue # None /\ p.annual_revenue > Get(g.max_revenue)

\* Grant g declares an employee ceiling, and the employee count of p exceeds it.
EmployeesAboveCeiling(p, g) ==
    g.max_employees # None /\ p.employee_count > Get(g.max_employees)

\* The disqualifying conditions that hold for grant g and profile p on day
\* `now`, by their position in the fixed order: 1 past deadline, 2 missing hard
\* certification, 3 revenue ceiling, 4 employee ceiling, 5 location restriction.
ConditionsHolding(p, g, now) ==
    { k \in 1..5 :
        \/ k = 1 /\ PastDeadline(g, now)
        \/ k = 2 /\ LacksHardCertification(p, g)
        \/ k = 3 /\ RevenueAboveCeiling(p, g)
        \/ k = 4 /\ EmployeesAboveCeiling(p, g)
        \/ k = 5 /\ NoLocationMatches(p, g) }

\* How the disqualification reason of each condition begins.
ReasonPrefix(k) ==
    CASE k = 1 -> <<"D","e","a","d","l","i","n","e"," ","h","a","s"," ","p","a","s","s","e","d">> (* Deadline has passed *)
      [] k = 2 -> <<"R","e","q","u","i","r","e","s"," ","c","e","r","t","i","f","i","c","a","t","i","o","n",":"," ">> (* Requires certification:  *)
      [] k = 3 -> <<"R","e","v","e","n","u","e"," ","e","x","c","e","e","d","s"," ","l","i","m","i","t">> (* Revenue exceeds limit *)
      [] k = 4 -> <<"E","m","p","l","o","y","e","e"," ","c","o","u","n","t"," ","e","x","c","e","e","d","s"," ","l","i","m","i","t">> (* Employee count exceeds limit *)
      [] k = 5 -> <<"L","o","c","a","t","i","o","n"," ","r","e","s","t","r","i","c","t","e","d"," ","t","o",":"," ">> (* Location restricted to:  *)

\* C15 as stated: when several disqualifying conditions hold for a grant, the
\* result is disqualified and its reason is that of the first of them in the
\* order past deadline, missing hard certification, revenue ceiling, employee
\* ceiling, location restriction.
C15_Original ==
    \A r \in Results :
        LET holding == ConditionsHolding(profile, r.grant, today)
        IN  Cardinality(holding) >= 2 =>
                /\ r.disqualified
                /\ \E k \in holding :
                      /\ \A j \in holding : k <= j
                      /\ StartsWith(r.disqualification_reason, ReasonPrefix(k))

\* The deadline of grant g is a value that is not a calendar date.
MalformedDeadline(g) == g.deadline_text # None

\* Grant g with its deadline removed.
WithoutDeadline(g) == [g EXCEPT !.deadline = None, !.deadline_text = None]

\* The matcher a call of match_grants builds.
FreshMatcher == GrantMatcher(profile, today, hash_order)

\* C16 as stated: match_all does not fail on a grant whose deadline is not a
\* calendar date; the pass completes, the grant is ordered as a grant without
\* deadline (after every dated grant), and it is disqualified exactly if its
\* other fields disqualify it.
C16_Original ==
    /\ \A e \in raised : ~MalformedDeadline(grants[e.index])
    /\ \A k \in 1..Len(returns) :
          LET ret == returns[k]
          IN  /\ Len(ret.matched) = Len(grants)
              /\ \A j \in 1..Len(grants) :
                    MalformedDeadline(grants[j]) =>
                        ret.matched[j].disqualified
                            = match_grant(FreshMatcher, WithoutDeadline(grants[j]),
                                          today).disqualified
              /\ \A i \in 1..Len(ret.items), j \in 1..Len(ret.items) :
                    (i < j /\ MalformedDeadline(ret.items[i].grant))
                        => ret.items[j].grant.deadline = None

\* Grant g is a valid record: its list fields are lists (as every list field of
\* the model is) and its optional fields are absent or of their declared type.
ValidGrant(g) == g.deadline_text = None

InputsKept ==
    (pc # "collect" \/ pc' # "collect") =>
        /\ grants' = grants
        /\ profile' = profile
        /\ \A m \in matcher, n \in matcher' : n = m

\* The object ids of the result lists built so far.
ListIds == { returns[k].list_id : k \in 1..Len(returns) } \cup { f.results_id : f \in frame }

\* What the calls return is newly built: every call has its own list object,
\* every MatchResult in a list is an object of its own, made by that call after
\* every object that existed when the pass began, and the attributes a matcher
\* holds are those of the profile.
ResultsNewlyBuilt ==
    /\ Cardinality(ListIds) = Len(returns) + Cardinality(frame)
    /\ \A id \in ListIds : id >= 1 /\ id < heap_top
    /\ \A k \in 1..Len(returns) :
          /\ Cardinality(returns[k].item_ids) = Len(returns[k].items)
          /\ returns[k].item_ids \cap ListIds = {}
          /\ \A id \in returns[k].item_ids : id > returns[k].list_id /\ id < heap_top
          /\ \A l \in 1..Len(returns) :
                l # k => returns[k].item_ids \cap returns[l].item_ids = {}
    /\ \A m \in matcher : m.attrs = get_eligibility_attributes(profile, today)

\* C18: match_grant and match_all leave their inputs unchanged, and each call
\* returns newly built results.
C18_InputsUnchangedResultsNew == [][InputsKept]_vars /\ []ResultsNewlyBuilt

\* C18 witness: match_grants has returned twice for a list of three grants, one
\* of them with a location list in mixed case: two lists with the same results.
C18_Witness ==
    /\ Len(returns) = 2
    /\ Len(grants) = 3
    /\ \E j \in 1..3 : grants[j].eligible_locations # LowerAll(grants[j].eligible_locations)
    /\ Len(returns[1].items) >= 2
    /\ returns[1].items = returns[2].items
    /\ returns[1].list_id # returns[2].list_id

\* The result match_grant computes for grant g when a newly built matcher
\* matches g and nothing else.
MatchedAlone(g) == match_grant(FreshMatcher, g, today)

\* The results the running call and the returned calls computed, call by call.
MatchedLists == { returns[k].matched : k \in 1..Len(returns) } \cup { f.matched : f \in frame }

ClaimedWeightedSum(g) ==
    20 * _score_location(Matcher, g)[1]
    + 20 * _score_size(Matcher, g)[1]
    + 25 * _score_ownership(Matcher, g)[1]
    + 15 * _score_industry(Matcher, g)[1]
    + 10 * _score_certifications(Matcher, g)[1]
    + 10 * _score_deadline(Matcher, g, today)

\* C20: the score of a grant that is not disqualified is the weighted sum of
\* its six sub-scores divided by the total weight applied; the six weights sum
\* to exactly 1.00; when the total weight applied is zero the score is 0.0 (and
\* nothing is divided by zero).
C20_WeightedSumNormalised ==
    /\ MaxScore = 100
    /\ \A r \in Results :
          ~r.disqualified => r.score * MaxScore = ClaimedWeightedSum(r.grant) * 100
    /\ \A n \in normalized : n.max_score = 0 => n.final_score = 0

\* C20 witness: a grant whose sub-scores differ between the dimensions has
\* been matched and not disqualified, and the normalisation has been evaluated
\* for a total weight of zero.
C20_Witness ==
    \E r \in result, n \in normalized :
        /\ ~r.disqualified
        /\ r.score > 0
        /\ _score_location(Matcher, r.grant)[1] # _score_industry(Matcher, r.grant)[1]
        /\ _score_ownership(Matcher, r.grant)[1] # _score_deadline(Matcher, r.grant, today)
        /\ n.max_score = 0

\* The warnings of result r hold one of the two ceiling warnings of the size
\* dimension, which it adds where it multiplies the size sub-score by 0.0.
SizeZeroedByCeiling(r) ==
    \/ ListIn(<<"R","e","v","e","n","u","e"," ","m","a","y"," ","e","x","c","e","e","d"," ","l","i","m","i","t">> (* Revenue may exceed limit *), r.warnings)
    \/ ListIn(<<"E","m","p","l","o","y","e","e"," ","c","o","u","n","t"," ","m","a","y"," ","e","x","c","e","e","d"," ","l","i","m","i","t">> (* Employee count may exceed limit *), r.warnings)

LocationSubScoreUsed(r) ==
    LET others == _score_size(Matcher, r.grant)[1] * 20
                  + _score_ownership(Matcher, r.grant)[1] * 25
                  + _score_industry(Matcher, r.grant)[1] * 15
                  + _score_certifications(Matcher, r.grant)[1] * 10
                  + _score_deadline(Matcher, r.grant, today) * 10
    IN  (r.score - others) \div 20

\* Some entry of the grant's eligible_locations names Sacramento.
NamesSacramento(g) ==
    \E i \in 1..Len(g.eligible_locations) : StrIn(<<"s","a","c","r","a","m","e","n","t","o">> (* sacramento *), Lower(g.eligible_locations[i]))

\* Some entry of the grant's eligible_locations names California.
NamesCalifornia(g) ==
    \E i \in 1..Len(g.eligible_locations) :
        \/ StrIn(<<"c","a","l","i","f","o","r","n","i","a">> (* california *), Lower(g.eligible_locations[i]))
        \/ Lower(g.eligible_locations[i]) = <<"c","a">> (* ca *)

NationwideWords == { <<"n","a","t","i","o","n","w","i","d","e">> (* nationwide *), <<"u","s">> (* us *), <<"u","s","a">> (* usa *), <<"u","n","i","t","e","d"," ","s","t","a","t","e","s">> (* united states *), <<"a","l","l"," ","s","t","a","t","e","s">> (* all states *) }

\* Some entry of the list is, letter case aside, exactly a nationwide word.
NationwideEntry(g) ==
    \E i \in 1..Len(g.eligible_locations) : Lower(g.eligible_locations[i]) \in NationwideWords

\* Some entry of the list contains a nationwide word, possibly with other text.
NationwideWordWithin(g) ==
    \E i \in 1..Len(g.eligible_locations), w \in NationwideWords :
        StrIn(w, Lower(g.eligible_locations[i]))

\* The ordered location rules, given whether the list counts as nationwide.
LocationRules(g, nationwide) ==
    IF Len(g.eligible_locations) = 0 THEN 100
    ELSE IF NamesSacramento(g) THEN 100
    ELSE IF NamesCalifornia(g) THEN 100
    ELSE IF nationwide THEN 90
    ELSE 50

\* C22 as stated: the location sub-score follows the ordered rules, a list
\* counting as nationwide when an entry contains a nationwide word, alone or
\* together with other text.
C22_Original ==
    \A r \in Results :
        ~r.disqualified => LocationSubScoreUsed(r) = LocationRules(r.grant, NationwideWordWithin(r.grant))

\* C22: the location sub-score of a grant that is not disqualified is 1.0 for
\* an empty eligible_locations, else 1.0 when Sacramento is named, else 1.0 when
\* California is named, else 0.9 when some entry is, letter case aside, exactly
\* one of nationwide, us, usa, united states, all states, else 0.5.
C22_LocationSubScore ==
    \A r \in Results :
        ~r.disqualified => LocationSubScoreUsed(r) = LocationRules(r.grant, NationwideEntry(r.grant))

\* C22 witness: a grant whose list holds a nationwide word only inside a longer
\* entry has been matched with location sub-score 0.5.
C22_Witness ==
    \E r \in result :
        /\ ~r.disqualified
        /\ NationwideWordWithin(r.grant) /\ ~NationwideEntry(r.grant)
        /\ ~NamesSacramento(r.grant) /\ ~NamesCalifornia(r.grant)
        /\ LocationSubScoreUsed(r) = 50

\* The ownership sub-score that went into the score of a result that is not
\* disqualified, in hundredths: what the score holds beyond the five other
\* weighted sub-scores, divided by the ownership weight 0.25.
OwnershipSubScoreUsed(r) ==
    LET others == _score_location(Matcher, r.grant)[1] * 20
                  + _score_size(Matcher, r.grant)[1] * 20
                  + _score_industry(Matcher, r.grant)[1] * 15
                  + _score_certifications(Matcher, r.grant)[1] * 10
                  + _score_deadline(Matcher, r.grant, today) * 10
    IN  (r.score - others) \div 25

\* The profile lacks a characteristic that grant g requires.
RequirementUnmet(g) ==
    \/ g.requires_woman_owned /\ profile.woman_owned_percentage <= 0
    \/ g.requires_minority_owned /\ profile.minority_owned_percentage <= 0
    \/ g.requires_veteran_owned /\ ~profile.veteran_owned

\* 0.1 for each of woman-owned and minority-owned that the profile has without
\* grant g requiring it, in hundredths.
OwnershipBonus(g) ==
    (IF ~g.requires_woman_owned /\ profile.woman_owned_percentage > 0 THEN 10 ELSE 0)
    + (IF ~g.requires_minority_owned /\ profile.minority_owned_percentage > 0 THEN 10 ELSE 0)

\* C23: the ownership sub-score is 0.0 as soon as a required characteristic is
\* not held, even when another required one is held; otherwise 1.0 when the
\* grant requires woman- or minority-owned status; otherwise 0.5 plus 0.1 for
\* each of woman-owned and minority-owned the profile has; never above 1.0.
C23_OwnershipSubScore ==
    \A r \in Results :
        ~r.disqualified =>
            /\ OwnershipSubScoreUsed(r) <= 100
            /\ OwnershipSubScoreUsed(r) =
                  IF RequirementUnmet(r.grant) THEN 0
                  ELSE IF r.grant.requires_woman_owned \/ r.grant.requires_minority_owned THEN 100
                  ELSE 50 + OwnershipBonus(r.grant)

\* C23 witness: one grant matched with a held woman-owned requirement (1.0) and
\* its copy that also requires veteran-owned status, which the profile lacks
\* (0.0); and the profile holds a characteristic that is not required.
C23_Witness ==
    \E r \in result, v \in variant :
        /\ ~r.disqualified /\ ~v.disqualified
        /\ r.grant.requires_woman_owned /\ ~RequirementUnmet(r.grant)
        /\ OwnershipBonus(r.grant) > 0
        /\ OwnershipSubScoreUsed(r) = 100
        /\ v.grant.requires_woman_owned /\ v.grant.requires_veteran_owned
        /\ ~profile.veteran_owned
        /\ OwnershipSubScoreUsed(v) = 0

\* The size sub-score that went into the score of a result that is not
\* disqualified, in hundredths: what the score holds beyond the five other
\* weighted sub-scores, divided by the size weight 0.20.
SizeSubScoreUsed(r) ==
    LET others == _score_location(Matcher, r.grant)[1] * 20
                  + _score_ownership(Matcher, r.grant)[1] * 25
                  + _score_industry(Matcher, r.grant)[1] * 15
                  + _score_certifications(Matcher, r.grant)[1] * 10
                  + _score_deadline(Matcher, r.grant, today) * 10
    IN  (r.score - others) \div 20

\* Grant g sets a revenue or employee ceiling that the profile is not at or
\* below (a NaN ceiling is one nothing is at or below).
CeilingViolated(g) ==
    \/ g.max_revenue_nan
    \/ g.max_revenue # None /\ ~(profile.annual_revenue <= Get(g.max_revenue))
    \/ g.max_employees # None /\ ~(profile.employee_count <= Get(g.max_employees))

\* Grant g sets a minimum years in business that the profile does not reach.
YearsShortfall(g) ==
    /\ g.min_years_in_business # None
    /\ (today - profile.founding_date) \div 365 < Get(g.min_years_in_business)

\* Grant g sets no size constraint at all.
NoSizeConstraint(g) ==
    /\ g.max_revenue = None /\ ~g.max_revenue_nan
    /\ g.max_employees = None
    /\ g.min_years_in_business = None

DeadlineTable(g, now) ==
    IF g.deadline = None THEN 50
    ELSE IF DeadlineWithin(g, now, -DateMax, -1) THEN 0
    ELSE IF DeadlineWithin(g, now, 0, 7) THEN 100
    ELSE IF DeadlineWithin(g, now, 8, 14) THEN 90
    ELSE IF DeadlineWithin(g, now, 15, 30) THEN 80
    ELSE IF DeadlineWithin(g, now, 31, 60) THEN 60
    ELSE 40

\* The reason "Deadline in N days" for a grant whose deadline is N days away.
DeadlineReason(g, now) == <<"D","e","a","d","l","i","n","e"," ","i","n"," ">> (* Deadline in  *) \o FmtInt(Get(g.deadline) - now) \o <<" ","d","a","y","s">> (*  days *)

\* C25: _score_deadline follows the table (0.5 no deadline, 0.0 past, 1.0 for
\* 0 to 7 days, 0.9 for 8 to 14, 0.8 for 15 to 30, 0.6 for 31 to 60, 0.4
\* beyond), match_grant uses that sub-score, and the reasons of a result end
\* with "Deadline in N days" exactly when the deadline is 0 to 60 days away,
\* no other reason being a deadline reason.
C25_DeadlineTableAndReason ==
    \A r \in Results :
        /\ _score_deadline(Matcher, r.grant, today) = DeadlineTable(r.grant, today)
        /\ ~r.disqualified =>
              /\ DeadlineSubScoreUsed(r) = DeadlineTable(r.grant, today)
              /\ (DeadlineSubScoreUsed(r) > 50) <=> DeadlineWithin(r.grant, today, 0, 60)
              /\ DeadlineWithin(r.grant, today, 0, 60) =>
                    /\ Len(r.reasons) > 1
                    /\ r.reasons[Len(r.reasons)] = DeadlineReason(r.grant, today)
              /\ \A i \in 1..Len(r.reasons) :
                    StartsWith(r.reasons[i], <<"D","e","a","d","l","i","n","e"," ","i","n"," ">> (* Deadline in  *))
                       => i = Len(r.reasons) /\ DeadlineWithin(r.grant, today, 0, 60)

\* C25 witness: a grant with a deadline 60 days away has been matched with
\* "Deadline in 60 days" as its last reason, and its copy with a deadline 10
\* days away with "Deadline in 10 days".
C25_Witness ==
    \E r \in result, d \in dated :
        /\ ~r.disqualified /\ DeadlineWithin(r.grant, today, 60, 60)
        /\ DeadlineSubScoreUsed(r) = 60
        /\ r.reasons[Len(r.reasons)] = <<"D","e","a","d","l","i","n","e"," ","i","n"," ","6","0"," ","d","a","y","s">> (* Deadline in 60 days *)
        /\ ~d.disqualified
        /\ d.reasons[Len(d.reasons)] = <<"D","e","a","d","l","i","n","e"," ","i","n"," ","1","0"," ","d","a","y","s">> (* Deadline in 10 days *)

\* The industry sub-score that went into the score of a result that is not
\* disqualified, in hundredths: what the score holds beyond the five other
\* weighted sub-scores, divided by the industry weight 0.15.
IndustrySubScoreUsed(r) ==
    LET others == _score_location(Matcher, r.grant)[1] * 20
                  + _score_size(Matcher, r.grant)[1] * 20
                  + _score_ownership(Matcher, r.grant)[1] * 25
                  + _score_certifications(Matcher, r.grant)[1] * 10
                  + _score_deadline(Matcher, r.grant, today) * 10
    IN  (r.score - others) \div 15

\* Some industry code of the profile and some industry string of grant g are
\* such that one is a prefix of the other.
CodePrefixRule(g) ==
    \E c \in AsSet(profile.naics_codes), s \in AsSet(g.eligible_industries) :
        \/ Len(s) <= Len(c) /\ SubSeq(c, 1, Len(s)) = s
        \/ Len(c) <= Len(s) /\ SubSeq(s, 1, Len(c)) = c

\* A keyword of the fixed list occurs in an industry string of grant g.
KeywordRule(g) ==
    \E w \in { <<"a","d","v","e","r","t","i","s","i","n","g">> (* advertising *), <<"m","a","r","k","e","t","i","n","g">> (* marketing *), <<"m","e","d","i","a">> (* media *), <<"c","o","n","s","u","l","t","i","n","g">> (* consulting *),
                <<"b","u","s","i","n","e","s","s"," ","s","e","r","v","i","c","e","s">> (* business services *), <<"p","r","o","f","e","s","s","i","o","n","a","l"," ","s","e","r","v","i","c","e","s">> (* professional services *),
                <<"s","m","a","l","l"," ","b","u","s","i","n","e","s","s">> (* small business *), <<"t","e","c","h","n","o","l","o","g","y">> (* technology *) },
       s \in AsSet(g.eligible_industries) :
        StrIn(w, Lower(s))

\* The industry text of grant g contains "all", "any", "open" or "general".
OpenRule(g) ==
    \E w \in { <<"a","l","l">> (* all *), <<"a","n","y">> (* any *), <<"o","p","e","n">> (* open *), <<"g","e","n","e","r","a","l">> (* general *) },
       s \in AsSet(g.eligible_industries) :
        StrIn(w, Lower(s))

\* C26: the industry sub-score is decided by the first rule that applies: no
\* eligible_industries 0.8; a profile code and a grant industry string of which
\* one is a prefix of the other 1.0; a keyword of the fixed list in a grant
\* industry string 0.9; "all", "any", "open" or "general" in the grant
\* industry text 0.8; otherwise 0.3.
C26_IndustryRuleOrder ==
    \A r \in Results :
        ~r.disqualified =>
            IndustrySubScoreUsed(r) =
                IF Len(r.grant.eligible_industries) = 0 THEN 80
                ELSE IF CodePrefixRule(r.grant) THEN 100
                ELSE IF KeywordRule(r.grant) THEN 90
                ELSE IF OpenRule(r.grant) THEN 80
                ELSE 30

\* C26 witness: a grant to which both the keyword rule and the open rule apply
\* has been matched with industry sub-score 0.9, and its reasons name the keyword.
C26_Witness ==
    \E r \in result :
        /\ ~r.disqualified
        /\ ~CodePrefixRule(r.grant) /\ KeywordRule(r.grant) /\ OpenRule(r.grant)
        /\ IndustrySubScoreUsed(r) = 90
        /\ ListIn(<<"I","n","d","u","s","t","r","y"," ","k","e","y","w","o","r","d"," ","m","a","t","c","h",":"," ","c","o","n","s","u","l","t","i","n","g">> (* Industry keyword match: consulting *), r.reasons)

\* The certification sub-score that went into the score of a result that is
\* not disqualified, in hundredths: what the score holds beyond the five other
\* weighted sub-scores, divided by the certification weight 0.10.
CertificationSubScoreUsed(r) ==
    LET others == _score_location(Matcher, r.grant)[1] * 20
                  + _score_size(Matcher, r.grant)[1] * 20
                  + _score_ownership(Matcher, r.grant)[1] * 25
                  + _score_industry(Matcher, r.grant)[1] * 15
                  + _score_deadline(Matcher, r.grant, today) * 10
    IN  (r.score - others) \div 10

\* The certifications grant g requires and the profile does not hold.
MissingSet(g) == AsSet(g.required_certifications) \ AsSet(profile.certifications)

\* The warnings that list exactly the certifications of `missing`, in any order.
MissingWarnings(missing) ==
    LET n == Cardinality(missing)
    IN  { <<"M","i","s","s","i","n","g"," ","c","e","r","t","i","f","i","c","a","t","i","o","n","s",":"," ">> (* Missing certifications:  *) \o Join(f, <<","," ">> (* ,  *)) :
            f \in { h \in [1..n -> missing] : \A i, j \in 1..n : h[i] = h[j] => i = j } }

\* The warnings of result r that list missing certifications.
CertificationWarnings(r) ==
    { i \in 1..Len(r.warnings) : StartsWith(r.warnings[i], <<"M","i","s","s","i","n","g"," ","c","e","r","t","i","f","i","c","a","t","i","o","n","s",":"," ">> (* Missing certifications:  *)) }

\* The reasons of result r that come from the certification dimension.
CertificationReasons(r) ==
    { i \in 1..Len(r.reasons) :
        \/ r.reasons[i] = <<"N","o"," ","c","e","r","t","i","f","i","c","a","t","i","o","n","s"," ","r","e","q","u","i","r","e","d">> (* No certifications required *)
        \/ StartsWith(r.reasons[i], <<"H","a","v","e"," ","r","e","q","u","i","r","e","d"," ","c","e","r","t","i","f","i","c","a","t","i","o","n","s",":"," ">> (* Have required certifications:  *)) }

\* The eligibility summary of grant g contains "prefer" in some letter case.
MentionsPrefer(g) == StrIn(<<"p","r","e","f","e","r">> (* prefer *), Lower(g.eligibility_summary))

\* C27: for a grant that is not disqualified the certification sub-score is
\* 1.0, with no warning, when nothing is required or all that is required is
\* held; when a required certification is missing it is 0.5 if the eligibility
\* summary contains "prefer" in any letter case and 0.0 otherwise, with exactly
\* one warning listing the missing certifications and no certification reason.
C27_CertificationSubScore ==
    \A r \in Results :
        ~r.disqualified =>
            IF MissingSet(r.grant) = {}
            THEN /\ CertificationSubScoreUsed(r) = 100
                 /\ CertificationWarnings(r) = {}
            ELSE /\ CertificationSubScoreUsed(r) = IF MentionsPrefer(r.grant) THEN 50 ELSE 0
                 /\ Cardinality(CertificationWarnings(r)) = 1
                 /\ \A i \in CertificationWarnings(r) :
                       r.warnings[i] \in MissingWarnings(MissingSet(r.grant))
                 /\ CertificationReasons(r) = {}

\* C27 witness: a grant that requires two certifications, of which the profile
\* holds one, and whose summary says "Preferred", has been matched with
\* certification sub-score 0.5 and a warning that lists the missing one only.
C27_Witness ==
    \E r \in result :
        /\ ~r.disqualified
        /\ Cardinality(MissingSet(r.grant)) = 1
        /\ Cardinality(AsSet(r.grant.required_certifications)) = 2
        /\ MentionsPrefer(r.grant) /\ ~StrIn(<<"p","r","e","f","e","r">> (* prefer *), r.grant.eligibility_summary)
        /\ CertificationSubScoreUsed(r) = 50
        /\ r.warnings = << <<"M","i","s","s","i","n","g"," ","c","e","r","t","i","f","i","c","a","t","i","o","n","s",":"," ","M","B","E">> (* Missing certifications: MBE *) >>

\* The amount as the display writes it: a dollar sign and the whole amount with
\* thousands separators.
Dollars(n) == <<"$">> (* $ *) \o FmtThousands(n)

\* C28 as stated: amount_display follows the precedence with a bound counting
\* as set whenever it is a number, zero included: the exact amount when both
\* bounds are set and equal, the range when both are set and differ, "Up to
\* max" for a maximum alone, "From min" for a minimum alone, else the
\* description when it is non-empty, else "Amount varies".
C28_Original ==
    \A s \in shown :
        LET g == s.grant
        IN  s.text =
              IF g.amount_min # None /\ g.amount_max # None
              THEN IF Get(g.amount_min) = Get(g.amount_max)
                   THEN Dollars(Get(g.amount_min))
                   ELSE Dollars(Get(g.amount_min)) \o <<" ","-"," ">> (*  -  *) \o Dollars(Get(g.amount_max))
              ELSE IF g.amount_max # None THEN <<"U","p"," ","t","o"," ">> (* Up to  *) \o Dollars(Get(g.amount_max))
              ELSE IF g.amount_min # None THEN <<"F","r","o","m"," ">> (* From  *) \o Dollars(Get(g.amount_min))
              ELSE IF g.amount_description # <<>> THEN g.amount_description
              ELSE <<"A","m","o","u","n","t"," ","v","a","r","i","e","s">> (* Amount varies *)

\* What the five dimensions other than ownership give grant g, in ten-thousandths.
OtherFive(g) ==
    _score_location(Matcher, g)[1] * 20
    + _score_size(Matcher, g)[1] * 20
    + _score_industry(Matcher, g)[1] * 15
    + _score_certifications(Matcher, g)[1] * 10
    + _score_deadline(Matcher, g, today) * 10

\* Result r carries the reason of an ownership veto.
VetoReason(r) ==
    \E w \in { <<"w","o","m","a","n">> (* woman *), <<"m","i","n","o","r","i","t","y">> (* minority *), <<"v","e","t","e","r","a","n">> (* veteran *) } :
        ListIn(<<"R","e","q","u","i","r","e","s"," ">> (* Requires  *) \o w \o <<"-","o","w","n","e","d"," ","s","t","a","t","u","s">> (* -owned status *), r.reasons)

\* C29 as stated: match_all never returns a grant that has an ownership
\* requirement the profile does not satisfy.
C29_Original ==
    \A rs \in Rankings :
        \A i \in 1..Len(rs) : ~RequirementUnmet(rs[i].grant)

\* C29: an unmet ownership requirement zeroes the ownership sub-score only: a
\* returned grant with one has a score of 0.6 to 0.75, made of the five other
\* dimensions, and the veto reason; and every such grant of the input that is
\* not disqualified and gets 0.6 or more from the other dimensions is returned.
C29_VetoedGrantsRanked ==
    \A rs \in ranked :
        /\ \A i \in 1..Len(rs) :
              RequirementUnmet(rs[i].grant) =>
                  /\ rs[i].score = OtherFive(rs[i].grant)
                  /\ rs[i].score >= MIN_ELIGIBILITY_SCORE /\ rs[i].score <= 7500
                  /\ VetoReason(rs[i])
        /\ \A j \in 1..Len(grants) :
              ( /\ RequirementUnmet(grants[j])
                /\ ~_check_disqualifiers(Matcher, grants[j], today)[1]
                /\ OtherFive(grants[j]) >= MIN_ELIGIBILITY_SCORE )
                  => \E i \in 1..Len(rs) : rs[i].grant = grants[j]

\* C29 witness: match_all has returned a grant that requires veteran-owned
\* status for a profile that is not veteran-owned, and has left out another
\* such grant that the other dimensions score below the threshold.
C29_Witness ==
    \E rs \in ranked :
        /\ \E i \in 1..Len(rs) :
              /\ rs[i].grant.requires_veteran_owned /\ ~profile.veteran_owned
              /\ rs[i].score >= MIN_ELIGIBILITY_SCORE
        /\ \E j \in 1..Len(grants) :
              /\ RequirementUnmet(grants[j])
              /\ OtherFive(grants[j]) < MIN_ELIGIBILITY_SCORE
              /\ \A i \in 1..Len(rs) : rs[i].grant # grants[j]

\* The waits of a call that has made n attempts and is not waiting: 2^attempt
\* seconds after each failed attempt but the last one made, 1 s, then 2 s.
WaitsAfter(n) == [i \in 1..(n - 1) |-> Pow2(i - 1)]

\* A call in progress has made at most MAX_RETRIES attempts, and waited 2^attempt
\* seconds after each failed one; a call that ended returned a response right
\* after its first successful attempt, or raised the error of its last attempt.
RetryDiscipline ==
    /\ \A c \in call :
          /\ c.attempts <= MAX_RETRIES
          /\ Len(c.errors) = c.attempts
          /\ c.at = "request" => c.attempts < MAX_RETRIES /\ c.slept = WaitsAfter(c.attempts + 1)
          /\ c.at = "backoff" => c.attempts < MAX_RETRIES /\ c.slept = WaitsAfter(c.attempts)
    /\ \A o \in outcome :
          /\ call = None
          /\ o.kind \in {"response", "error"}
          /\ o.attempts >= 1 /\ o.attempts <= MAX_RETRIES
          /\ o.slept = WaitsAfter(o.attempts)
          /\ o.kind = "response" => Len(o.errors) = o.attempts - 1 /\ o.error = None
          /\ o.kind = "error" =>
                /\ o.attempts = MAX_RETRIES
                /\ Len(o.errors) = MAX_RETRIES
                /\ o.error = Some(o.errors[MAX_RETRIES])
                /\ o.slept = << 1, 2 >>

\* C30: _get and _post make at most MAX_RETRIES (3) attempts per call, return
\* the first successful response at once, wait 2^attempt seconds (1 s, then
\* 2 s) after a failed attempt that is not the last, raise the error of the
\* last attempt without waiting, and every call ends with a response or with
\* an error, never without either.
C30_RetryThenResponseOrError ==
    /\ []RetryDiscipline
    /\ (call # None) ~> (call = None /\ outcome # None)

\* C30 witness: a call has failed three times, with two different errors, and
\* raised the last one after waits of 1 s and 2 s; it was not the first call.
C30_Witness ==
    \E o \in outcome :
        /\ o.kind = "error" /\ o.attempts = MAX_RETRIES /\ o.slept = << 1, 2 >>
        /\ o.errors[1] # o.errors[MAX_RETRIES]
        /\ o.error = Some(o.errors[MAX_RETRIES])
        /\ calls > 1
====
